---------------------------- MODULE Spec2Model ----------------------------
(* A model of the bibliographic record interchange engine of refrs:       *)
(* the reference-type table, the RIS parser and serializer of            *)
(* src/model/ris.rs and the import orchestrator of                       *)
(* src/services/serialization.rs.                                        *)
(*                                                                       *)
(* Text is modelled at the level of characters: a string is a sequence   *)
(* of one-character strings, so that lines(), trim(), trim_end() and     *)
(* split_once("  -") are computed as the code computes them.             *)
EXTENDS Integers, Sequences, FiniteSets, TLC

(***************************************************************************)
(* Strings                                                                 *)
(***************************************************************************)

\* The characters char::is_whitespace accepts, as far as the model's texts use them.
WhiteSpace == {" ", "\t", "\n", "\r"}

\* str::trim_end: the string without its trailing whitespace.
RECURSIVE trim_end(_)
trim_end(s) ==
    IF s # <<>> /\ s[Len(s)] \in WhiteSpace
    THEN trim_end(SubSeq(s, 1, Len(s) - 1))
    ELSE s

\* str::trim_start: the string without its leading whitespace.
RECURSIVE trim_start(_)
trim_start(s) ==
    IF s # <<>> /\ s[1] \in WhiteSpace
    THEN trim_start(Tail(s))
    ELSE s

\* str::trim: the string without leading and trailing whitespace.
trim(s) == trim_start(trim_end(s))

\* Whether pat occurs in s at position i (1-based).
MatchAt(s, pat, i) ==
    /\ i >= 1
    /\ i + Len(pat) - 1 <= Len(s)
    /\ \A k \in 1..Len(pat) : s[i + k - 1] = pat[k]

\* str::find: the position of the first occurrence of pat in s, 0 when there is none.
find(s, pat) ==
    LET hits == {i \in 1..Len(s) : MatchAt(s, pat, i)}
    IN  IF hits = {} THEN 0 ELSE CHOOSE i \in hits : \A j \in hits : i <= j

\* str::split_once: None, or the parts before and after the first occurrence of pat.
split_once(s, pat) ==
    LET i == find(s, pat)
    IN  IF i = 0
        THEN [some |-> FALSE, before |-> <<>>, after |-> <<>>]
        ELSE [some |-> TRUE,
              before |-> SubSeq(s, 1, i - 1),
              after |-> SubSeq(s, i + Len(pat), Len(s))]

\* str::lines: the text cut at every "\n"; a line ended by "\r\n" loses both, and
\* a last line without "\n" is a line only when it is not empty.
RECURSIVE LinesFrom(_, _)
LinesFrom(s, i) ==
    LET breaks == {j \in i..Len(s) : s[j] = "\n"}
    IN  IF breaks = {}
        THEN IF i > Len(s) THEN <<>> ELSE <<SubSeq(s, i, Len(s))>>
        ELSE LET j == CHOOSE b \in breaks : \A c \in breaks : b <= c
                 line == IF j - 1 >= i /\ s[j - 1] = "\r"
                         THEN SubSeq(s, i, j - 2)
                         ELSE SubSeq(s, i, j - 1)
             IN  <<line>> \o LinesFrom(s, j + 1)

lines(s) == LinesFrom(s, 1)

\* [String]::join: the parts with sep between them.
RECURSIVE join(_, _)
join(parts, sep) ==
    IF parts = <<>> THEN <<>>
    ELSE IF Len(parts) = 1 THEN parts[1]
    ELSE parts[1] \o sep \o join(Tail(parts), sep)

UpperChars ==
    <<"A", "B", "C", "D", "E", "F", "G", "H", "I", "J", "K", "L", "M",
      "N", "O", "P", "Q", "R", "S", "T", "U", "V", "W", "X", "Y", "Z">>

LowerChars ==
    <<"a", "b", "c", "d", "e", "f", "g", "h", "i", "j", "k", "l", "m",
      "n", "o", "p", "q", "r", "s", "t", "u", "v", "w", "x", "y", "z">>

Digits == {"0", "1", "2", "3", "4", "5", "6", "7", "8", "9"}

\* The character c of the alphabet `from` as the alphabet `to` has it.
MapChar(c, from, to) ==
    IF \E i \in DOMAIN from : from[i] = c
    THEN to[CHOOSE i \in DOMAIN from : from[i] = c]
    ELSE c

\* str::to_lowercase.
to_lowercase(s) == [i \in DOMAIN s |-> MapChar(s[i], UpperChars, LowerChars)]

\* str::to_uppercase.
to_uppercase(s) == [i \in DOMAIN s |-> MapChar(s[i], LowerChars, UpperChars)]

(***************************************************************************)
(* The reference-type table                                                *)
(***************************************************************************)

\* enum ReferenceType.
ReferenceTypes ==
    {"Abstract", "AggregatedDatabase", "AncientText", "Art",
     "AudiovisualMaterial", "Bill", "Book", "Case",
     "Catalog", "Chart", "ClassicalWork", "ComputerProgram",
     "ConferencePaper", "ConferenceProceedings", "Dataset", "ElectronicArticle",
     "ElectronicBook", "Encyclopedia", "Equation", "Figure",
     "Generic", "GovernmentDocument", "Grant", "Hearing",
     "Journal", "LegalRuleOrRegulation", "MagazineArticle", "Manuscript",
     "Map", "Music", "Newspaper", "OnlineDatabase",
     "Patent", "PersonalCommunication", "Report", "Serial",
     "Slide", "SoundRecording", "Standard", "Statute",
     "Thesis", "UnpublishedWork", "VideoRecording", "Unknown"}

\* ReferenceType::to_str: the code each variant is written as.
to_str(t) ==
    CASE t = "Abstract" -> <<"A", "B", "S", "T">>
      [] t = "AggregatedDatabase" -> <<"A", "G", "G", "R">>
      [] t = "AncientText" -> <<"A", "N", "C", "I", "E", "N", "T">>
      [] t = "Art" -> <<"A", "R", "T">>
      [] t = "AudiovisualMaterial" -> <<"A", "U", "D">>
      [] t = "Bill" -> <<"B", "I", "L", "L">>
      [] t = "Book" -> <<"B", "O", "O", "K">>
      [] t = "Case" -> <<"C", "A", "S", "E">>
      [] t = "Catalog" -> <<"C", "T", "L", "G">>
      [] t = "Chart" -> <<"C", "H", "A", "P">>
      [] t = "ClassicalWork" -> <<"C", "L", "S", "W", "K">>
      [] t = "ComputerProgram" -> <<"C", "O", "M", "P">>
      [] t = "ConferencePaper" -> <<"C", "O", "N", "F">>
      [] t = "ConferenceProceedings" -> <<"C", "P", "A", "P", "E", "R">>
      [] t = "Dataset" -> <<"D", "A", "T", "A">>
      [] t = "ElectronicArticle" -> <<"E", "L", "E", "C">>
      [] t = "ElectronicBook" -> <<"E", "B", "O", "O", "K">>
      [] t = "Encyclopedia" -> <<"E", "N", "C", "Y", "C">>
      [] t = "Equation" -> <<"E", "Q", "U", "A">>
      [] t = "Figure" -> <<"F", "I", "G", "U", "R", "E">>
      [] t = "Generic" -> <<"G", "E", "N">>
      [] t = "GovernmentDocument" -> <<"G", "O", "V", "D", "O", "C">>
      [] t = "Grant" -> <<"G", "R", "A", "N", "T">>
      [] t = "Hearing" -> <<"H", "E", "A", "R">>
      [] t = "Journal" -> <<"J", "O", "U", "R">>
      [] t = "LegalRuleOrRegulation" -> <<"L", "E", "G", "A", "L">>
      [] t = "MagazineArticle" -> <<"M", "G", "Z", "N">>
      [] t = "Manuscript" -> <<"M", "A", "N", "S", "C", "P", "T">>
      [] t = "Map" -> <<"M", "A", "P">>
      [] t = "Music" -> <<"M", "U", "S", "I", "C">>
      [] t = "Newspaper" -> <<"N", "E", "W", "S">>
      [] t = "OnlineDatabase" -> <<"D", "B", "A", "S", "E">>
      [] t = "Patent" -> <<"P", "A", "T">>
      [] t = "PersonalCommunication" -> <<"P", "C", "O", "M", "M">>
      [] t = "Report" -> <<"R", "P", "R", "T">>
      [] t = "Serial" -> <<"S", "E", "R">>
      [] t = "Slide" -> <<"S", "L", "I", "D", "E">>
      [] t = "SoundRecording" -> <<"S", "O", "U", "N", "D">>
      [] t = "Standard" -> <<"S", "T", "A", "N", "D">>
      [] t = "Statute" -> <<"S", "T", "A", "T">>
      [] t = "Thesis" -> <<"T", "H", "E", "S">>
      [] t = "UnpublishedWork" -> <<"U", "N", "P", "B">>
      [] t = "VideoRecording" -> <<"V", "I", "D", "E", "O">>
      [] t = "Unknown" -> <<"G", "E", "N">>

\* ReferenceType::from_str: the variant a code stands for, Unknown for any other
\* string.
from_str(s) ==
    CASE s = <<"A", "B", "S", "T">> -> "Abstract"
      [] s = <<"A", "D", "V", "S">> \/ s = <<"A", "G", "G", "R">> -> "AggregatedDatabase"
      [] s = <<"A", "N", "C", "I", "E", "N", "T">> -> "AncientText"
      [] s = <<"A", "R", "T">> -> "Art"
      [] s = <<"A", "U", "D">> -> "AudiovisualMaterial"
      [] s = <<"B", "I", "L", "L">> -> "Bill"
      [] s = <<"B", "O", "O", "K">> -> "Book"
      [] s = <<"C", "A", "S", "E">> -> "Case"
      [] s = <<"C", "T", "L", "G">> -> "Catalog"
      [] s = <<"C", "H", "A", "P">> -> "Chart"
      [] s = <<"C", "L", "S", "W", "K">> -> "ClassicalWork"
      [] s = <<"C", "O", "M", "P">> -> "ComputerProgram"
      [] s = <<"C", "O", "N", "F">> -> "ConferencePaper"
      [] s = <<"C", "P", "A", "P", "E", "R">> -> "ConferenceProceedings"
      [] s = <<"D", "A", "T", "A">> -> "Dataset"
      [] s = <<"E", "L", "E", "C">> -> "ElectronicArticle"
      [] s = <<"E", "B", "O", "O", "K">> -> "ElectronicBook"
      [] s = <<"E", "N", "C", "Y", "C">> -> "Encyclopedia"
      [] s = <<"E", "Q", "U", "A">> -> "Equation"
      [] s = <<"F", "I", "G", "U", "R", "E">> -> "Figure"
      [] s = <<"G", "E", "N">> -> "Generic"
      [] s = <<"G", "O", "V", "D", "O", "C">> -> "GovernmentDocument"
      [] s = <<"G", "R", "A", "N", "T">> -> "Grant"
      [] s = <<"H", "E", "A", "R">> -> "Hearing"
      [] s = <<"J", "O", "U", "R">> -> "Journal"
      [] s = <<"L", "E", "G", "A", "L">> -> "LegalRuleOrRegulation"
      [] s = <<"M", "G", "Z", "N">> -> "MagazineArticle"
      [] s = <<"M", "A", "N", "S", "C", "P", "T">> -> "Manuscript"
      [] s = <<"M", "A", "P">> -> "Map"
      [] s = <<"M", "U", "S", "I", "C">> -> "Music"
      [] s = <<"N", "E", "W", "S">> -> "Newspaper"
      [] s = <<"D", "B", "A", "S", "E">> -> "OnlineDatabase"
      [] s = <<"P", "A", "T">> -> "Patent"
      [] s = <<"P", "C", "O", "M", "M">> -> "PersonalCommunication"
      [] s = <<"R", "P", "R", "T">> -> "Report"
      [] s = <<"S", "E", "R">> -> "Serial"
      [] s = <<"S", "L", "I", "D", "E">> -> "Slide"
      [] s = <<"S", "O", "U", "N", "D">> -> "SoundRecording"
      [] s = <<"S", "T", "A", "N", "D">> -> "Standard"
      [] s = <<"S", "T", "A", "T">> -> "Statute"
      [] s = <<"T", "H", "E", "S">> -> "Thesis"
      [] s = <<"U", "N", "P", "B">> -> "UnpublishedWork"
      [] s = <<"V", "I", "D", "E", "O">> -> "VideoRecording"
      [] OTHER -> "Unknown"

(***************************************************************************)
(* Records and the RIS parser                                              *)
(***************************************************************************)

\* HashMap::new(): the field map with no tag.
EmptyFields == [tag \in {} |-> <<>>]

\* RisEntry { ty, fields }.
RisEntry(ty, fields) == [ty |-> ty, fields |-> fields]

\* push_field with the value put in place of the values the tag had.
push_field_overwrite(fields, tag, value) ==
    [t \in (DOMAIN fields) \cup {tag} |-> IF t = tag THEN <<value>> ELSE fields[t]]

\* current_fields.entry(tag).or_insert_with(Vec::new).push(value)
push_field(fields, tag, value) ==
    IF tag \in DOMAIN fields
    THEN [fields EXCEPT ![tag] = Append(@, value)]
    ELSE [t \in (DOMAIN fields) \cup {tag} |->
             IF t = tag THEN <<value>> ELSE fields[t]]

\* The separator between a tag and its value.
Separator == <<" ", " ", "-">>

TagTY == <<"T", "Y">>
TagER == <<"E", "R">>

NoError == [msg |-> "none"]

ErrInvalidLine(n, line) ==
    [msg |-> "Format error: Invalid line format at line {}: '{}'",
     line_number |-> n, line |-> line]

ErrErWithoutTy(n) ==
    [msg |-> "Format error: 'ER' tag found without a preceding 'TY' tag at line {}",
     line_number |-> n]

ErrLastEntry == [msg |-> "Format error: Last entry does not have a 'TY' tag."]

\* The locals of parse_ris before the first line.
ParserStart ==
    [entries |-> <<>>, current_fields |-> EmptyFields,
     current_ty |-> "Unknown", has_ty |-> FALSE, error |-> NoError]

\* The "TY" arm: flush the fields gathered so far, if any, under the previous
\* type, then take the new type.
on_ty(st, value) ==
    LET flushed == IF DOMAIN st.current_fields # {}
                   THEN [st EXCEPT
                           !.entries = Append(@, RisEntry(st.current_ty, st.current_fields)),
                           !.current_fields = EmptyFields]
                   ELSE st
    IN  [flushed EXCEPT !.current_ty = from_str(value), !.has_ty = TRUE]

\* on_er without current_fields.clear().
on_er_keeps_fields(st, n) ==
    IF ~st.has_ty
    THEN [st EXCEPT !.error = ErrErWithoutTy(n)]
    ELSE [st EXCEPT
            !.entries = Append(@, RisEntry(st.current_ty, st.current_fields)),
            !.current_ty = "Unknown",
            !.has_ty = FALSE]

\* on_er without has_ty = false.
on_er_keeps_has_ty(st, n) ==
    IF ~st.has_ty
    THEN [st EXCEPT !.error = ErrErWithoutTy(n)]
    ELSE [st EXCEPT
            !.entries = Append(@, RisEntry(st.current_ty, st.current_fields)),
            !.current_fields = EmptyFields,
            !.current_ty = "Unknown"]

\* The "ER" arm: an error without a TY, else the entry is pushed and the locals reset.
on_er(st, n) ==
    IF ~st.has_ty
    THEN [st EXCEPT !.error = ErrErWithoutTy(n)]
    ELSE [st EXCEPT
            !.entries = Append(@, RisEntry(st.current_ty, st.current_fields)),
            !.current_fields = EmptyFields,
            !.current_ty = "Unknown",
            !.has_ty = FALSE]

\* The default arm: the value joins the values of its tag.
on_field(st, tag, value) ==
    [st EXCEPT !.current_fields = push_field(@, tag, value)]

\* parse_line reporting a bad line under the number enumerate() gives it.
parse_line_zero_based(st, raw, line_number) ==
    LET line  == trim_end(raw)
        parts == split_once(line, Separator)
        tag   == trim(parts.before)
        value == trim(parts.after)
    IN  IF line = <<>> THEN st
        ELSE IF ~parts.some
             THEN [st EXCEPT !.error = ErrInvalidLine(line_number, line)]
        ELSE IF tag = TagTY THEN on_ty(st, value)
        ELSE IF tag = TagER THEN on_er(st, line_number + 1)
        ELSE on_field(st, tag, value)

\* One iteration of the loop of parse_ris over the line numbered line_number
\* (0-based, as enumerate() gives it).
parse_line(st, raw, line_number) ==
    LET line  == trim_end(raw)
        parts == split_once(line, Separator)
        tag   == trim(parts.before)
        value == trim(parts.after)
    IN  IF line = <<>> THEN st
        ELSE IF ~parts.some
             THEN [st EXCEPT !.error = ErrInvalidLine(line_number + 1, line)]
        ELSE IF tag = TagTY THEN on_ty(st, value)
        ELSE IF tag = TagER THEN on_er(st, line_number + 1)
        ELSE on_field(st, tag, value)

\* What parse_ris does after the loop.
parse_end(st) ==
    IF DOMAIN st.current_fields # {}
    THEN [st EXCEPT !.error = ErrLastEntry]
    ELSE st

\* The value parse_ris returns from a parser state: Err(error) or Ok(entries).
parse_result(st) ==
    IF st.error # NoError
    THEN [ok |-> FALSE, error |-> st.error, entries |-> <<>>]
    ELSE [ok |-> TRUE, error |-> NoError, entries |-> st.entries]

\* parse_ris as a function: the loop over the lines, left at the first error.
RECURSIVE parse_loop(_, _, _)
parse_loop(st, ls, i) ==
    IF i > Len(ls) THEN parse_end(st)
    ELSE LET next == parse_line(st, ls[i], i - 1)
         IN  IF next.error # NoError THEN next ELSE parse_loop(next, ls, i + 1)

parse_ris(content) == parse_result(parse_loop(ParserStart, lines(content), 1))

\* to_string's lines of one tag when only the first value is printed.
field_lines_first_value_only(tag, values) ==
    IF values = <<>> THEN <<>>
    ELSE <<tag \o Separator \o <<" ">> \o Head(values)>>

\* RisEntry::to_string with the tags of the field map visited in the order
\* `order` (a HashMap gives no order of its own).
RECURSIVE field_lines(_, _)
field_lines(tag, values) ==
    IF values = <<>> THEN <<>>
    ELSE <<tag \o Separator \o <<" ">> \o Head(values)>> \o field_lines(tag, Tail(values))

RECURSIVE all_field_lines(_, _)
all_field_lines(fields, order) ==
    IF order = <<>> THEN <<>>
    ELSE field_lines(Head(order), fields[Head(order)]) \o all_field_lines(fields, Tail(order))

\* to_string without the closing ER line.
to_string_without_er(e, order) ==
    join(<<TagTY \o Separator \o <<" ">> \o to_str(e.ty)>>
           \o all_field_lines(e.fields, order),
         <<"\n">>)

to_string(e, order) ==
    join(<<TagTY \o Separator \o <<" ">> \o to_str(e.ty)>>
           \o all_field_lines(e.fields, order)
           \o <<TagER \o Separator>>,
         <<"\n">>)

\* The orders in which a HashMap with these keys may be iterated.
Orders(keys) ==
    {o \in [1..Cardinality(keys) -> keys] : \A i, j \in DOMAIN o : i # j => o[i] # o[j]}

(***************************************************************************)
(* BibTeX entries and their mapping to records                             *)
(***************************************************************************)

\* str::contains.
contains(s, pat) == find(s, pat) # 0

\* str::split: the parts of s between the occurrences of pat, found left to
\* right without overlap; a string without pat is its own single part.
RECURSIVE split(_, _)
split(s, pat) ==
    LET i == find(s, pat)
    IN  IF i = 0 THEN <<s>>
        ELSE <<SubSeq(s, 1, i - 1)>> \o split(SubSeq(s, i + Len(pat), Len(s)), pat)

NonEmpty(s) == s # <<>>

\* .map(|s| s.trim()).filter(|s| !s.is_empty())
trimmed_non_empty(parts) ==
    SelectSeq([i \in DOMAIN parts |-> trim(parts[i])], NonEmpty)

\* The characters U+2013 and U+2014, each one character of a text.
EnDash == "U+2013"
EmDash == "U+2014"

\* A chunk of a BibTeX field value: Chunk::Normal, Chunk::Verbatim or Chunk::Math.
Chunk(kind, s) == [kind |-> kind, v |-> s]

\* chunks_to_string: the texts of the chunks, whatever their kinds, one after the other.
RECURSIVE chunks_to_string(_)
chunks_to_string(chunks) ==
    IF chunks = <<>> THEN <<>>
    ELSE Head(chunks).v \o chunks_to_string(Tail(chunks))

\* biblatex::Entry, as far as RisEntry::from reads it: the entry type as
\* written and the chunks of each field.
BibEntry(entry_type, fields) == [entry_type |-> entry_type, fields |-> fields]

\* field_as_string of RisEntry::from: None, or the field as one string.
field_as_string(bibtex_entry, key) ==
    IF key \in DOMAIN bibtex_entry.fields
    THEN [some |-> TRUE, v |-> chunks_to_string(bibtex_entry.fields[key])]
    ELSE [some |-> FALSE, v |-> <<>>]

\* add_field once per value, in order.
RECURSIVE add_fields(_, _, _)
add_fields(fields, tag, values) ==
    IF values = <<>> THEN fields
    ELSE add_fields(push_field(fields, tag, Head(values)), tag, Tail(values))

\* The field copied under a tag when it is present.
copy_field(fields, bibtex_entry, key, tag) ==
    LET f == field_as_string(bibtex_entry, key)
    IN  IF f.some THEN push_field(fields, tag, f.v) ELSE fields

\* The first of two fields that is present, copied under a tag.
copy_first_field(fields, bibtex_entry, key, otherwise, tag) ==
    IF key \in DOMAIN bibtex_entry.fields
    THEN copy_field(fields, bibtex_entry, key, tag)
    ELSE copy_field(fields, bibtex_entry, otherwise, tag)

\* The entry type of a BibTeX entry as a reference type.
entry_type_to_ty(entry_type) ==
    LET entry_type_str == to_lowercase(entry_type)
    IN  CASE entry_type_str = <<"a", "r", "t", "i", "c", "l", "e">> -> "Journal"
          [] entry_type_str = <<"b", "o", "o", "k">> -> "Book"
          [] entry_type_str \in {<<"i", "n", "p", "r", "o", "c", "e", "e", "d", "i", "n", "g", "s">>, <<"c", "o", "n", "f", "e", "r", "e", "n", "c", "e">>} -> "ConferencePaper"
          [] entry_type_str \in {<<"p", "h", "d", "t", "h", "e", "s", "i", "s">>, <<"m", "a", "s", "t", "e", "r", "s", "t", "h", "e", "s", "i", "s">>, <<"t", "h", "e", "s", "i", "s">>} -> "Thesis"
          [] entry_type_str \in {<<"t", "e", "c", "h", "r", "e", "p", "o", "r", "t">>, <<"r", "e", "p", "o", "r", "t">>} -> "Report"
          [] entry_type_str = <<"u", "n", "p", "u", "b", "l", "i", "s", "h", "e", "d">> -> "UnpublishedWork"
          [] entry_type_str = <<"m", "i", "s", "c">> -> "Generic"
          [] OTHER -> "Unknown"

\* "author": split at " and ", each part trimmed, the empty ones dropped.
authors_of(fields, bibtex_entry) ==
    LET f == field_as_string(bibtex_entry, "author")
    IN  IF f.some
        THEN add_fields(fields, <<"A", "U">>, trimmed_non_empty(split(f.v, <<" ", "a", "n", "d", " ">>)))
        ELSE fields

PageSeparators == << <<"-", "-">>, <<EnDash>>, <<EmDash>> >>

TagSP == <<"S", "P">>
TagEP == <<"E", "P">>

\* The pages loop knowing "--" only.
pages_split_double_hyphen_only(fields, pages_str, separators) ==
    LET sep   == <<"-", "-">>
        parts == split(pages_str, sep)
    IN  IF contains(pages_str, sep) /\ Len(parts) = 2
        THEN LET start == trim(parts[1])
                 end   == trim(parts[2])
                 withStart == IF start # <<>> THEN push_field(fields, TagSP, start) ELSE fields
             IN  IF end # <<>> THEN push_field(withStart, TagEP, end) ELSE withStart
        ELSE IF trim(pages_str) # <<>>
             THEN push_field(fields, TagSP, trim(pages_str))
             ELSE fields

\* The loop over the separators of a pages value, and what follows it when no
\* separator was found to cut the value in two.
RECURSIVE pages_split(_, _, _)
pages_split(fields, pages_str, separators) ==
    IF separators = <<>>
    THEN IF trim(pages_str) # <<>>
         THEN push_field(fields, <<"S", "P">>, trim(pages_str))
         ELSE fields
    ELSE LET sep   == Head(separators)
             parts == split(pages_str, sep)
         IN  IF contains(pages_str, sep) /\ Len(parts) = 2
             THEN LET start == trim(parts[1])
                      end   == trim(parts[2])
                      withStart == IF start # <<>>
                                   THEN push_field(fields, <<"S", "P">>, start)
                                   ELSE fields
                  IN  IF end # <<>> THEN push_field(withStart, <<"E", "P">>, end) ELSE withStart
             ELSE pages_split(fields, pages_str, Tail(separators))

pages_of(fields, bibtex_entry) ==
    LET f == field_as_string(bibtex_entry, "pages")
    IN  IF f.some THEN pages_split(fields, f.v, PageSeparators) ELSE fields

\* Every keyword cut at the delimiter, the parts trimmed and the empty ones dropped.
RECURSIVE split_all(_, _)
split_all(keywords, d) ==
    IF keywords = <<>> THEN <<>>
    ELSE trimmed_non_empty(split(Head(keywords), d)) \o split_all(Tail(keywords), d)

\* The loop over the delimiters of a keywords value.
RECURSIVE keywords_split(_, _)
keywords_split(keywords, delimiters) ==
    IF delimiters = <<>> THEN keywords
    ELSE LET d == Head(delimiters)
         IN  IF Len(keywords) = 1 /\ ~contains(keywords[1], d)
             THEN keywords_split(keywords, Tail(delimiters))
             ELSE keywords_split(split_all(keywords, d), Tail(delimiters))

keywords_of(fields, bibtex_entry) ==
    LET f == field_as_string(bibtex_entry, "keywords")
    IN  IF f.some
        THEN add_fields(fields, <<"K", "W">>, keywords_split(<<f.v>>, << <<",">>, <<";">> >>))
        ELSE fields

\* RisEntry::from: the record of a BibTeX entry.
RisEntry_from(bibtex_entry) ==
    LET b  == bibtex_entry
        f1 == authors_of(EmptyFields, b)
        f2 == copy_field(f1, b, "title", <<"T", "I">>)
        f3 == copy_first_field(f2, b, "year", "date", <<"P", "Y">>)
        f4 == copy_first_field(f3, b, "journal", "booktitle", <<"T", "2">>)
        f5 == copy_field(f4, b, "publisher", <<"P", "B">>)
        f6 == copy_field(f5, b, "volume", <<"V", "L">>)
        f7 == copy_first_field(f6, b, "number", "issue", <<"I", "S">>)
        f8 == pages_of(f7, b)
        f9 == copy_field(f8, b, "doi", <<"D", "O">>)
        f10 == copy_field(f9, b, "url", <<"U", "R">>)
        f11 == copy_field(f10, b, "abstract", <<"A", "B">>)
        f12 == keywords_of(f11, b)
        f13 == copy_field(f12, b, "issn", <<"S", "N">>)
    IN  RisEntry(entry_type_to_ty(b.entry_type), f13)

(***************************************************************************)
(* File names                                                              *)
(***************************************************************************)

\* RisEntry::get_field: the first value of a tag, None when the tag is absent.
get_field(e, key) ==
    IF key \in DOMAIN e.fields /\ e.fields[key] # <<>>
    THEN [some |-> TRUE, v |-> e.fields[key][1]]
    ELSE [some |-> FALSE, v |-> <<>>]

\* str::split_whitespace: the maximal runs of characters that are not whitespace.
RECURSIVE split_whitespace(_)
split_whitespace(s) ==
    LET t == trim_start(s)
        stops == {i \in 1..Len(t) : t[i] \in WhiteSpace}
        stop == IF stops = {} THEN Len(t) + 1
                ELSE CHOOSE i \in stops : \A j \in stops : i <= j
    IN  IF t = <<>> THEN <<>>
        ELSE <<SubSeq(t, 1, stop - 1)>> \o split_whitespace(SubSeq(t, stop, Len(t)))

academic_stopwords ==
    {<<"a">>,
     <<"a", "n">>,
     <<"a", "n", "d">>,
     <<"t", "h", "e">>,
     <<"o", "f">>,
     <<"i", "n">>,
     <<"o", "n">>,
     <<"f", "o", "r">>,
     <<"w", "i", "t", "h">>,
     <<"t", "o">>,
     <<"f", "r", "o", "m">>,
     <<"b", "y">>,
     <<"a", "b", "o", "u", "t">>,
     <<"a", "s">>,
     <<"a", "t">>,
     <<"i", "n", "t", "o">>,
     <<"t", "h", "r", "o", "u", "g", "h">>,
     <<"b", "e", "t", "w", "e", "e", "n">>,
     <<"w", "i", "t", "h", "i", "n">>,
     <<"w", "i", "t", "h", "o", "u", "t">>,
     <<"o", "r">>,
     <<"n", "o", "r">>,
     <<"b", "u", "t">>,
     <<"y", "e", "t">>,
     <<"s", "o">>,
     <<"b", "e", "c", "a", "u", "s", "e">>,
     <<"a", "l", "t", "h", "o", "u", "g", "h">>,
     <<"s", "i", "n", "c", "e">>,
     <<"w", "h", "i", "l", "e">>,
     <<"w", "h", "e", "n">>,
     <<"w", "h", "e", "r", "e">>,
     <<"t", "h", "a", "t">>,
     <<"w", "h", "i", "c", "h">>,
     <<"w", "h", "a", "t">>,
     <<"w", "h", "o">>,
     <<"w", "h", "o", "s", "e">>,
     <<"w", "h", "o", "m">>,
     <<"h", "o", "w">>,
     <<"w", "h", "y">>,
     <<"i", "t">>,
     <<"i", "t", "s">>,
     <<"t", "h", "i", "s">>,
     <<"t", "h", "e", "s", "e">>,
     <<"t", "h", "o", "s", "e">>,
     <<"t", "h", "e", "r", "e">>,
     <<"h", "e", "r", "e">>,
     <<"s", "u", "c", "h">>,
     <<"m", "o", "r", "e">>,
     <<"l", "e", "s", "s">>,
     <<"m", "a", "n", "y">>,
     <<"m", "u", "c", "h">>,
     <<"a", "n", "y">>,
     <<"e", "v", "e", "r", "y">>,
     <<"e", "a", "c", "h">>,
     <<"o", "t", "h", "e", "r">>,
     <<"s", "o", "m", "e">>,
     <<"f", "e", "w">>,
     <<"a", "l", "l">>,
     <<"b", "o", "t", "h">>,
     <<"e", "i", "t", "h", "e", "r">>,
     <<"n", "e", "i", "t", "h", "e", "r">>,
     <<"o", "n", "e">>,
     <<"t", "w", "o">>,
     <<"t", "h", "r", "e", "e">>,
     <<"f", "o", "u", "r">>,
     <<"f", "i", "v", "e">>,
     <<"s", "i", "x">>,
     <<"s", "e", "v", "e", "n">>,
     <<"e", "i", "g", "h", "t">>,
     <<"n", "i", "n", "e">>,
     <<"t", "e", "n">>,
     <<"u", "p">>,
     <<"d", "o", "w", "n">>,
     <<"o", "u", "t">>,
     <<"o", "v", "e", "r">>,
     <<"u", "n", "d", "e", "r">>,
     <<"a", "b", "o", "v", "e">>,
     <<"b", "e", "l", "o", "w">>,
     <<"n", "e", "w">>,
     <<"c", "u", "r", "r", "e", "n", "t">>,
     <<"r", "e", "c", "e", "n", "t">>,
     <<"f", "u", "t", "u", "r", "e">>,
     <<"a", "n", "a", "l", "y", "s", "i", "s">>,
     <<"s", "t", "u", "d", "y">>,
     <<"r", "e", "s", "e", "a", "r", "c", "h">>,
     <<"r", "e", "s", "u", "l", "t", "s">>,
     <<"r", "e", "v", "i", "e", "w">>,
     <<"o", "v", "e", "r", "v", "i", "e", "w">>}

\* first_non_stopword: the first word of the input that is not, as written, a stop-word.
first_non_stopword(input, stopwords) ==
    LET words == split_whitespace(input)
        kept  == {i \in DOMAIN words : words[i] \notin stopwords}
    IN  IF kept = {} THEN [some |-> FALSE, v |-> <<>>]
        ELSE [some |-> TRUE, v |-> words[CHOOSE i \in kept : \A j \in kept : i <= j]]

\* char::is_alphanumeric, as far as the model's texts use it.
is_alphanumeric(c) ==
    \/ c \in Digits
    \/ \E i \in DOMAIN UpperChars : UpperChars[i] = c
    \/ \E i \in DOMAIN LowerChars : LowerChars[i] = c

\* .replace(|c: char| !c.is_alphanumeric(), "_")
sanitize(s) == [i \in DOMAIN s |-> IF is_alphanumeric(s[i]) THEN s[i] ELSE "_"]

\* The title part of a file name.
title_of(e) ==
    LET ti    == get_field(e, <<"T", "I">>)
        input == IF ti.some THEN trim(ti.v) ELSE <<"n", "o", "t", "i", "t", "l", "e">>
        word  == first_non_stopword(input, academic_stopwords)
    IN  to_lowercase(IF word.some THEN word.v ELSE <<"n", "o", "t", "i", "t", "l", "e">>)

TagPY == <<"P", "Y">>

\* The author part taken from the whole of the first AU value.
author_of_whole_value(e) ==
    LET au == get_field(e, <<"A", "U">>)
    IN  to_lowercase(IF au.some THEN trim(au.v) ELSE <<"n", "o", "a", "u", "t", "h", "o", "r">>)

\* The author part of a file name.
author_of(e) ==
    LET au == get_field(e, <<"A", "U">>)
    IN  to_lowercase(IF au.some THEN trim(split(au.v, <<",">>)[1]) ELSE <<"n", "o", "a", "u", "t", "h", "o", "r">>)

\* The year part of a file name.
year_of(e) ==
    LET py == get_field(e, <<"P", "Y">>)
    IN  IF py.some THEN trim(py.v) ELSE <<"n", "o", "d", "a", "t", "e">>

\* A counter as format! writes it.
RECURSIVE decimal(_)
decimal(n) ==
    LET digit == <<"0", "1", "2", "3", "4", "5", "6", "7", "8", "9">>[(n % 10) + 1]
    IN  IF n < 10 THEN <<digit>> ELSE decimal(n \div 10) \o <<digit>>

\* format!("{}_{}_{}.ris", sanitized_author, sanitized_title, year)
format_file_name(author, title, date) ==
    author \o <<"_">> \o title \o <<"_">> \o date \o <<".", "r", "i", "s">>

\* format!("{}_{}_{}_{}.ris", sanitized_author, sanitized_title, year, counter)
format_numbered(author, title, date, n) ==
    author \o <<"_">> \o title \o <<"_">> \o date \o <<"_">> \o decimal(n)
        \o <<".", "r", "i", "s">>

\* The first file name add_entry tries for a record.
first_file_name(e) ==
    format_file_name(sanitize(author_of(e)), sanitize(title_of(e)), year_of(e))

\* The file name add_entry tries for a record when its counter is n.
numbered_file_name(e, n) ==
    format_numbered(sanitize(author_of(e)), sanitize(title_of(e)), year_of(e), n)

(***************************************************************************)
(* Inputs                                                                  *)
(***************************************************************************)

\* The longest text given to parse_ris, in lines.
MaxLines == 4

\* A line of an input text with what it was written to mean: its kind, its
\* tag and value, the type its code stands for (a TY line) and its text.
SrcLine(kind, tag, value, ty, text) ==
    [kind |-> kind, tag |-> tag, value |-> value, ty |-> ty, text |-> text]

TagAU == <<"A", "U">>
TagTI == <<"T", "I">>

SrcLines ==
    << SrcLine("TY", TagTY, <<"B", "O", "O", "K">>, "Book",
              <<"T", "Y", " ", " ", "-", " ", "B", "O", "O", "K">>),
      SrcLine("TY", TagTY, <<"J", "O", "U", "R">>, "Journal",
              <<"T", "Y", " ", " ", "-", " ", " ", " ", "J", "O", "U", "R", " ">>),
      SrcLine("field", TagAU, <<"a">>, "none", <<"A", "U", " ", " ", "-", " ", "a">>),
      SrcLine("field", TagAU, <<"b">>, "none", <<"A", "U", " ", " ", "-", " ", "b">>),
      SrcLine("field", TagTI, <<"a">>, "none", <<"T", "I", " ", " ", "-", " ", " ", "a", " ">>),
      SrcLine("ER", TagER, <<>>, "none", <<"E", "R", " ", " ", "-">>),
      SrcLine("blank", <<>>, <<>>, "none", <<>>),
      SrcLine("bad", <<>>, <<>>, "none", <<"B", "a", "d", " ", "-", " ">>),
      SrcLine("field", TagAU, <<"@", "k">>, "none",
              <<"A", "U", " ", " ", "-", " ", "@", "k">>) >>

\* The lines without "@", which the BibTeX parser passes over.
PlainPlaces == {i \in DOMAIN SrcLines : ~contains(SrcLines[i].text, <<"@">>)}

\* The input texts, each as the lines it is made of (their places in SrcLines).
Sources == UNION {[1..n -> PlainPlaces] : n \in 0..MaxLines}

\* The text of a source: its lines with "\n" between them.
Render(s) == join([i \in DOMAIN s |-> SrcLines[s[i]].text], <<"\n">>)

(***************************************************************************)
(* State                                                                   *)
(***************************************************************************)

VARIABLES
    pc,             \* where the run is: "parse", "returned", ...
    src,            \* the lines the text was written from (kept for the properties)
    content,        \* parse_ris: its argument
    lines_iter,     \* parse_ris: content.lines(), the lines not yet consumed
    line_number,    \* parse_ris: the lines consumed so far
    entries,        \* parse_ris: entries
    current_fields, \* parse_ris: current_fields
    current_ty,     \* parse_ris: current_ty
    has_ty,         \* parse_ris: has_ty
    result,         \* parse_ris: the value returned
    entry,          \* to_string: the record it is called on
    code,           \* from_str: its argument
    ty,             \* to_str: the variant it is called on
    decoded,        \* from_str: the variant returned
    encoded,        \* to_str: the code returned
    bibliography,   \* import: what Bibliography::parse returned
    ris_ran,        \* import: whether parse_ris has been called
    format,         \* import: the format whose records are being stored
    pending,        \* import: the records the loop has not reached yet
    file_name,      \* add_entry: file_name
    counter,        \* add_entry: counter
    sanitized_author, \* add_entry: sanitized_author
    sanitized_title,  \* add_entry: sanitized_title
    year,           \* add_entry: year
    files,          \* the files of <project>/ris_files, each with its content
    index,          \* git: the files staged
    commits,        \* git: the commits made, oldest first
    writes,         \* the calls of fs::write that succeeded (kept for the properties)
    outcome,        \* import: the value returned
    failure,        \* the storage or git step that has failed (kept for the properties)
    state,          \* AppState, as the commands read it
    ris_folder,     \* whether <project>/ris_files exists
    read_dir,       \* handle_export: the files fs::read_dir has not given yet
    bibtex_entries, \* handle_export: bibtex_entries
    stderr,         \* handle_export: the files reported with a parse error
    output,         \* handle_export: the file written, if any
    calls,          \* the server: the import calls under way, each with its locals
    git,            \* the git commands the command under way has run, each with its folder
    span,           \* print_problematic_line: start and end
    stdout          \* the lines printed

parserVars == <<lines_iter, line_number, entries, current_fields, current_ty, has_ty, result>>
typeVars == <<code, ty, decoded, encoded>>
nameVars == <<sanitized_author, sanitized_title, year>>
importVars == <<bibliography, ris_ran, format, pending, file_name, counter, nameVars,
                files, index, commits, writes, outcome, failure>>

exportVars == <<state, ris_folder, read_dir, bibtex_entries, stderr, output>>

otherVars == <<calls, git, span, stdout>>

vars == <<pc, src, content, entry, parserVars, typeVars, importVars, exportVars, otherVars>>

NoResult == [ok |-> FALSE, error |-> NoError, entries |-> <<>>]

\* The locals of parse_ris as one value.
Locals ==
    [entries |-> entries, current_fields |-> current_fields,
     current_ty |-> current_ty, has_ty |-> has_ty, error |-> NoError]

\* parse_ris is entered: its locals are those of ParserStart.
ParserInit ==
    /\ lines_iter = lines(content)
    /\ line_number = 0
    /\ entries = ParserStart.entries
    /\ current_fields = ParserStart.current_fields
    /\ current_ty = ParserStart.current_ty
    /\ has_ty = ParserStart.has_ty
    /\ result = NoResult

SetLocals(st) ==
    /\ entries' = st.entries
    /\ current_fields' = st.current_fields
    /\ current_ty' = st.current_ty
    /\ has_ty' = st.has_ty

\* One iteration of the loop of parse_ris: the next line is consumed, and an
\* error in it is returned at once.
ParseLine ==
    /\ pc = "parse"
    /\ lines_iter # <<>>
    /\ LET st == parse_line(Locals, Head(lines_iter), line_number)
       IN  IF st.error # NoError
           THEN /\ result' = parse_result(st)
                /\ pc' = "returned"
                /\ UNCHANGED <<lines_iter, line_number, entries, current_fields,
                               current_ty, has_ty>>
           ELSE /\ SetLocals(st)
                /\ lines_iter' = Tail(lines_iter)
                /\ line_number' = line_number + 1
                /\ UNCHANGED <<pc, result>>
    /\ UNCHANGED <<src, content, entry, typeVars, importVars>>
    /\ UNCHANGED exportVars
    /\ UNCHANGED otherVars

\* The lines are exhausted: parse_ris returns.
ParseEnd ==
    /\ pc = "parse"
    /\ lines_iter = <<>>
    /\ result' = parse_result(parse_end(Locals))
    /\ pc' = "returned"
    /\ UNCHANGED <<src, content, entry, typeVars, importVars>>
    /\ UNCHANGED <<lines_iter, line_number, entries, current_fields, current_ty, has_ty>>
    /\ UNCHANGED exportVars
    /\ UNCHANGED otherVars

\* No record is being serialized.
NoEntry == RisEntry("Unknown", EmptyFields)

\* The type table is not in use.
TypesIdle ==
    /\ code = <<>>
    /\ ty = "Unknown"
    /\ decoded = "none"
    /\ encoded = <<>>

\* A directory without files.
EmptyFolder == [name \in {} |-> <<>>]

\* Bibliography::parse has not been called.
NotParsed == [state |-> "none"]

\* import has not returned.
Running == [kind |-> "running"]

\* AppState { initialized, projects, current_project }.
AppState(initialized, projects, current_project) ==
    [initialized |-> initialized, projects |-> projects, current_project |-> current_project]

\* The only project of the model.
Project == [absolute_path |-> "/project", url |-> "url"]

\* The state with one project, which is the current one.
OneProject == AppState(TRUE, <<Project>>, Project.absolute_path)

\* No file has been written by handle_export.
NoOutput == [written |-> FALSE]

\* No export is under way.
ExportIdle ==
    /\ state = OneProject
    /\ ris_folder = TRUE
    /\ read_dir = {}
    /\ bibtex_entries = <<>>
    /\ stderr = <<>>
    /\ output = NoOutput

\* No call of the server is under way, no git command has been run and
\* nothing has been printed.
OthersIdle ==
    /\ calls = <<>>
    /\ git = {}
    /\ span = <<0, 0>>
    /\ stdout = <<>>

\* No import is under way.
ImportIdle ==
    /\ bibliography = NotParsed
    /\ ris_ran = FALSE
    /\ format = "none"
    /\ pending = <<>>
    /\ file_name = <<>>
    /\ counter = 0
    /\ sanitized_author = <<>>
    /\ sanitized_title = <<>>
    /\ year = <<>>
    /\ files = EmptyFolder
    /\ index = EmptyFolder
    /\ commits = <<>>
    /\ writes = <<>>
    /\ outcome = Running
    /\ failure = "none"

\* parse_ris called on each input text.
InitParse ==
    /\ src \in Sources
    /\ content = Render(src)
    /\ entry = NoEntry
    /\ pc = "parse"
    /\ ParserInit
    /\ TypesIdle
    /\ ImportIdle
    /\ ExportIdle
    /\ OthersIdle

NextParse == ParseLine \/ ParseEnd

SpecParse == InitParse /\ [][NextParse]_vars

(***************************************************************************)
(* What an input text means, read off the lines it was written from        *)
(***************************************************************************)

\* The i-th line of the source.
Line(i) == SrcLines[src[i]]

\* The places of the source's lines that are not blank.
NonBlank == {i \in DOMAIN src : Line(i).kind # "blank"}

\* An entry is open before line i: a TY line came, and no ER line after it.
OpenBefore(i) ==
    \E j \in 1..(i - 1) :
        /\ Line(j).kind = "TY"
        /\ \A k \in (j + 1)..(i - 1) : Line(k).kind # "ER"

\* Line i cannot be accepted: it has no separator, or it is an ER line with no
\* entry open.
Offends(i) ==
    \/ Line(i).kind = "bad"
    \/ Line(i).kind = "ER" /\ ~OpenBefore(i)

\* The first line that cannot be accepted, 0 when every line can.
FirstOffence ==
    IF \E i \in DOMAIN src : Offends(i)
    THEN CHOOSE i \in DOMAIN src : Offends(i) /\ \A j \in 1..(i - 1) : ~Offends(j)
    ELSE 0

\* The values of the field lines with this tag among the lines at the places ps.
RECURSIVE ValuesAt(_, _, _)
ValuesAt(i, ps, tag) ==
    IF i > Len(src) THEN <<>>
    ELSE IF i \in ps /\ Line(i).kind = "field" /\ Line(i).tag = tag
         THEN <<Line(i).value>> \o ValuesAt(i + 1, ps, tag)
         ELSE ValuesAt(i + 1, ps, tag)

\* The field map the field lines at the places ps stand for.
FieldsAt(ps) ==
    LET tags == {Line(i).tag : i \in {p \in ps : Line(p).kind = "field"}}
    IN  [t \in tags |-> ValuesAt(1, ps, t)]

\* The text is made of well-formed blocks: every TY line is followed by field
\* lines (and blank lines) up to an ER line, and nothing lies outside a block.
TyPlaces == {i \in DOMAIN src : Line(i).kind = "TY"}
ErPlaces == {i \in DOMAIN src : Line(i).kind = "ER"}

\* The ER line that closes the entry opened at the TY line t, 0 when none does.
CloserOf(t) ==
    LET later == {e \in ErPlaces : e > t}
    IN  IF later = {} THEN 0 ELSE CHOOSE e \in later : \A f \in later : e <= f

WellFormed ==
    /\ \A i \in DOMAIN src : Line(i).kind # "bad"
    /\ \A t \in TyPlaces :
          /\ CloserOf(t) # 0
          /\ \A k \in (t + 1)..(CloserOf(t) - 1) : Line(k).kind \in {"field", "blank"}
    /\ \A i \in NonBlank \ TyPlaces : \E t \in TyPlaces : t < i /\ i <= CloserOf(t)

\* The k-th TY line of the text.
RECURSIVE NthTy(_, _)
NthTy(k, from) ==
    LET t == CHOOSE i \in TyPlaces : i >= from /\ \A j \in TyPlaces : j >= from => i <= j
    IN  IF k = 1 THEN t ELSE NthTy(k - 1, t + 1)

\* The record the k-th block of a well-formed text stands for.
BlockRecord(k) ==
    LET t == NthTy(k, 1)
    IN  RisEntry(Line(t).ty, FieldsAt((t + 1)..(CloserOf(t) - 1)))

\* The text ends inside an entry: well-formed blocks, then a TY line and field
\* lines with no ER line.
LastTy == CHOOSE t \in TyPlaces : \A u \in TyPlaces : u <= t

Unterminated ==
    /\ TyPlaces # {}
    /\ \A i \in DOMAIN src : ~Offends(i)
    /\ \A e \in ErPlaces : e < LastTy
    /\ \A t \in TyPlaces \ {LastTy} :
          /\ CloserOf(t) # 0
          /\ \A k \in (t + 1)..(CloserOf(t) - 1) : Line(k).kind \in {"field", "blank"}
    /\ \A i \in NonBlank \ TyPlaces :
          \E t \in TyPlaces : t < i /\ (t = LastTy \/ i <= CloserOf(t))

(***************************************************************************)
(* Properties of parse_ris                                                 *)
(***************************************************************************)

\* C1: a text of N well-formed blocks (TY, field lines, ER), with blank lines
\* anywhere, parses to exactly N records, the i-th with the type and the fields
\* of the i-th block.
C1_WellFormedBlocksParse ==
    (pc = "returned" /\ WellFormed) =>
        /\ result.ok
        /\ Len(result.entries) = Cardinality(TyPlaces)
        /\ \A k \in 1..Cardinality(TyPlaces) : result.entries[k] = BlockRecord(k)

\* Two blocks of different types were parsed to two records.
C1_Witness ==
    /\ pc = "returned"
    /\ WellFormed
    /\ Cardinality(TyPlaces) = 2
    /\ result.ok
    /\ Len(result.entries) = 2
    /\ result.entries[1].ty # result.entries[2].ty

\* C3: a text that ends inside an entry opened by a TY line fails with "Last
\* entry does not have a 'TY' tag", however many field lines follow the TY line.
C3_UnterminatedEntryFails ==
    (pc = "returned" /\ Unterminated) =>
        /\ ~result.ok
        /\ result.error = ErrLastEntry

\* C4: an ER line with no TY line since the start or since the previous ER line
\* fails with the ER-without-TY message and the line's 1-based number.
C4_ErWithoutTyFails ==
    (pc = "returned" /\ FirstOffence # 0 /\ Line(FirstOffence).kind = "ER") =>
        /\ ~result.ok
        /\ result.error = ErrErWithoutTy(FirstOffence)
        /\ result.error.msg =
             "Format error: 'ER' tag found without a preceding 'TY' tag at line {}"

\* The second of two consecutive ER lines fails, after an entry was closed by
\* the first.
C4_Witness ==
    /\ pc = "returned"
    /\ FirstOffence > 2
    /\ Line(FirstOffence).kind = "ER"
    /\ Line(FirstOffence - 1).kind = "ER"
    /\ ~result.ok
    /\ result.error.line_number = FirstOffence
    /\ entries # <<>>

\* C5: a non-blank line without the separator fails with "Invalid line format",
\* the line's 1-based place in the text (blank lines counted) and the line's
\* text (as the parser holds it, trailing whitespace trimmed), inside and outside
\* an entry alike.
C5_InvalidLineFails ==
    (pc = "returned" /\ FirstOffence # 0 /\ Line(FirstOffence).kind = "bad") =>
        /\ ~result.ok
        /\ result.error.msg = "Format error: Invalid line format at line {}: '{}'"
        /\ result.error.line_number = FirstOffence
        /\ result.error.line = trim_end(Line(FirstOffence).text)

\* A bad line met inside an entry, after a blank line.
C5_Witness ==
    /\ pc = "returned"
    /\ FirstOffence > 2
    /\ Line(FirstOffence).kind = "bad"
    /\ \E i \in 1..(FirstOffence - 1) : Line(i).kind = "blank"
    /\ has_ty
    /\ ~result.ok
    /\ result.error.line_number = FirstOffence

\* The text holds a parse error: a line that cannot be accepted, or an entry
\* left open at its end.
HoldsParseError == FirstOffence # 0 \/ Unterminated

\* C6: when the text holds a parse error (a bad line, an ER without TY, an
\* unterminated last entry) the call returns none of the records of the blocks
\* before the error.
C6_NoPartialOutput ==
    (pc = "returned" /\ HoldsParseError) => result.entries = <<>>

\* The field lines consumed since the last TY or ER line.
SinceMark ==
    LET marks == {i \in 1..line_number : Line(i).kind \in {"TY", "ER"}}
        last  == IF marks = {} THEN 0 ELSE CHOOSE i \in marks : \A j \in marks : j <= i
    IN  (last + 1)..line_number

\* C7: inside an entry every field line appends one value to its tag's
\* sequence: the values of a tag are those of its lines in arrival order,
\* duplicates kept, whatever lines of other tags lie between them.
C7_FieldLinesAppend ==
    (pc = "parse" /\ OpenBefore(line_number + 1)) =>
        current_fields = FieldsAt(SinceMark)

\* Two values of one tag with a line of another tag between them.
C7_Witness ==
    /\ pc = "parse"
    /\ line_number >= 4
    /\ OpenBefore(line_number + 1)
    /\ Line(line_number).kind = "field"
    /\ Line(line_number - 1).kind = "field"
    /\ Line(line_number - 2).kind = "field"
    /\ Line(line_number).tag = Line(line_number - 2).tag
    /\ Line(line_number).tag # Line(line_number - 1).tag
    /\ Line(line_number).value # Line(line_number - 2).value
    /\ Len(current_fields[Line(line_number).tag]) = 2

(***************************************************************************)
(* The round trip: to_string, then parse_ris                               *)
(***************************************************************************)

\* The most values a tag of a serialized record has.
MaxValues == 2

TagKW == <<"K", "W">>

\* The sequences of 1 to n values out of vs.
ValueSeqs(vs, n) == UNION {[1..k -> vs] : k \in 1..n}

\* The field maps with these tags, or some of them, each with 1 to n values out of vs.
FieldMaps(tags, vs, n) ==
    UNION {[dom -> ValueSeqs(vs, n)] : dom \in SUBSET tags}

\* Tags and values as the parser itself produces them.
PlainTags == {TagAU, TagTI, TagKW}
PlainValues == {<<"a">>, <<"b">>}

\* Tags and values a record built by hand may hold as well.
OddTags ==
    {TagER, TagTY, <<>>, <<" ", "K">>, <<"K", " ">>, <<"A", " ", "U">>,
     <<"K", "\n", "K">>, <<"K", " ", " ", "-", "K">>}
OddValues ==
    {<<>>, <<" ", "a">>, <<"a", " ">>, <<"a", "\n", "b">>, <<"\n">>,
     <<"a", " ", " ", "-", " ", "b">>, <<"a", "\r">>}

\* The records serialized: every type with few fields, one type with every
\* plain field map, and records with one odd tag or value.
RoundTripEntries ==
    {RisEntry(t, f) : t \in ReferenceTypes, f \in FieldMaps({TagAU}, {<<"a">>}, 1)}
    \cup {RisEntry("Book", f) : f \in FieldMaps(PlainTags, PlainValues, MaxValues)}
    \cup {RisEntry(t, [g \in {tag} |-> <<v>>]) :
            t \in {"Book", "Unknown"},
            tag \in OddTags \cup {TagAU},
            v \in OddValues \cup {<<"a">>}}

\* entry.to_string(): the HashMap is walked in one of its orders.
Serialize ==
    /\ pc = "to_string"
    /\ \E order \in Orders(DOMAIN entry.fields) :
          content' = to_string(entry, order)
    /\ pc' = "parse"
    /\ lines_iter' = lines(content')
    /\ UNCHANGED <<src, entry, line_number, entries, current_fields, current_ty,
                   has_ty, result, typeVars, importVars>>
    /\ UNCHANGED exportVars
    /\ UNCHANGED otherVars

\* to_string called on each record, and parse_ris on its output.
InitRoundTrip ==
    /\ entry \in RoundTripEntries
    /\ src = <<>>
    /\ content = <<>>
    /\ pc = "to_string"
    /\ lines_iter = <<>>
    /\ line_number = 0
    /\ entries = ParserStart.entries
    /\ current_fields = ParserStart.current_fields
    /\ current_ty = ParserStart.current_ty
    /\ has_ty = ParserStart.has_ty
    /\ result = NoResult
    /\ TypesIdle
    /\ ImportIdle
    /\ ExportIdle
    /\ OthersIdle

NextRoundTrip == Serialize \/ ParseLine \/ ParseEnd

SpecRoundTrip == InitRoundTrip /\ [][NextRoundTrip]_vars

\* Whether c occurs in s.
HasChar(s, c) == \E i \in DOMAIN s : s[i] = c

\* A record as parse_ris produces them: no tag is TY or ER, tags and values have
\* no whitespace around them and no line feed in them, and no tag holds the
\* separator.
ParserShaped(e) ==
    \A tag \in DOMAIN e.fields :
        /\ tag \notin {TagTY, TagER}
        /\ trim(tag) = tag
        /\ ~HasChar(tag, "\n")
        /\ find(tag, Separator) = 0
        /\ \A i \in DOMAIN e.fields[tag] :
              /\ trim(e.fields[tag][i]) = e.fields[tag][i]
              /\ ~HasChar(e.fields[tag][i], "\n")

\* C2 as stated, on the records the parser itself produces: for every type and
\* every field map, parsing the record's to_string gives exactly one record,
\* with the same type and the same values under every tag.
C2_RoundTripEveryType ==
    (pc = "returned" /\ ParserShaped(entry)) =>
        /\ result.ok
        /\ Len(result.entries) = 1
        /\ result.entries[1].ty = entry.ty
        /\ result.entries[1].fields = entry.fields

\* C2 amended: for every record shaped as the parser's own, parsing its
\* to_string gives exactly one record with the same values under every tag, in
\* the same order, and the same type, but for Unknown, which comes back Generic.
C2_RoundTripParserShaped ==
    (pc = "returned" /\ ParserShaped(entry)) =>
        /\ result.ok
        /\ Len(result.entries) = 1
        /\ result.entries[1].ty = (IF entry.ty = "Unknown" THEN "Generic" ELSE entry.ty)
        /\ result.entries[1].fields = entry.fields

\* A record of three tags, one with two different values, came back.
C2_Witness ==
    /\ pc = "returned"
    /\ ParserShaped(entry)
    /\ Cardinality(DOMAIN entry.fields) = 3
    /\ \E tag \in DOMAIN entry.fields :
          /\ Len(entry.fields[tag]) = 2
          /\ entry.fields[tag][1] # entry.fields[tag][2]
    /\ result.ok
    /\ result.entries = <<entry>>

(***************************************************************************)
(* The type table on its own                                               *)
(***************************************************************************)

\* The codes to_str writes, and the alias from_str reads besides.
CodeADVS == <<"A", "D", "V", "S">>
CodeAGGR == <<"A", "G", "G", "R">>
WrittenCodes == {to_str(t) : t \in ReferenceTypes}
KnownCodes == WrittenCodes \cup {CodeADVS}

\* The strings from_str is tried on: the codes, their lower-case spellings, and
\* strings near a code.
CodeInputs ==
    KnownCodes
    \cup {to_lowercase(c) : c \in KnownCodes}
    \cup {<<>>, <<"U", "N", "K", "N">>, <<"B", "o", "o", "k">>,
          <<"B", "O", "O", "K", " ">>, <<" ", "B", "O", "O", "K">>,
          <<"B", "O", "O">>, <<"B", "O", "O", "K", "S">>}

\* from_str matching whatever the case of the string.
FromStr_ignoring_case ==
    /\ pc = "types"
    /\ decoded' = from_str(to_uppercase(code))
    /\ pc' = "decoded"
    /\ UNCHANGED <<src, content, entry, parserVars, importVars, code, ty, encoded>>
    /\ UNCHANGED exportVars
    /\ UNCHANGED otherVars

\* ReferenceType::from_str(code)
FromStr ==
    /\ pc = "types"
    /\ decoded' = from_str(code)
    /\ pc' = "decoded"
    /\ UNCHANGED <<src, content, entry, parserVars, importVars, code, ty, encoded>>
    /\ UNCHANGED exportVars
    /\ UNCHANGED otherVars

\* to_str with a code of its own for Unknown.
ToStr_unknown_code ==
    /\ pc = "types"
    /\ encoded' = (IF ty = "Unknown" THEN <<"U", "N", "K", "N">> ELSE to_str(ty))
    /\ pc' = "encoded"
    /\ UNCHANGED <<src, content, entry, parserVars, importVars, code, ty, decoded>>
    /\ UNCHANGED exportVars
    /\ UNCHANGED otherVars

\* ty.to_str()
ToStr ==
    /\ pc = "types"
    /\ encoded' = to_str(ty)
    /\ pc' = "encoded"
    /\ UNCHANGED <<src, content, entry, parserVars, importVars, code, ty, decoded>>
    /\ UNCHANGED exportVars
    /\ UNCHANGED otherVars

\* ReferenceType::from_str(ty.to_str())
FromStrOfToStr ==
    /\ pc = "encoded"
    /\ decoded' = from_str(encoded)
    /\ pc' = "redecoded"
    /\ UNCHANGED <<src, content, entry, parserVars, importVars, code, ty, encoded>>
    /\ UNCHANGED exportVars
    /\ UNCHANGED otherVars

InitTypes ==
    /\ code \in CodeInputs
    /\ ty \in ReferenceTypes
    /\ decoded = "none"
    /\ encoded = <<>>
    /\ pc = "types"
    /\ src = <<>>
    /\ content = <<>>
    /\ entry = NoEntry
    /\ lines_iter = <<>>
    /\ line_number = 0
    /\ entries = ParserStart.entries
    /\ current_fields = ParserStart.current_fields
    /\ current_ty = ParserStart.current_ty
    /\ has_ty = ParserStart.has_ty
    /\ result = NoResult
    /\ ImportIdle
    /\ ExportIdle
    /\ OthersIdle

NextTypes == FromStr \/ ToStr \/ FromStrOfToStr

SpecTypes == InitTypes /\ [][NextTypes]_vars

\* C8: from_str(to_str(t)) = t for every variant but Unknown, and
\* from_str(to_str(Unknown)) = Generic, both being written "GEN".
C8_DecodeEncode ==
    pc = "redecoded" =>
        /\ ty # "Unknown" => decoded = ty
        /\ ty = "Unknown" => decoded = "Generic" /\ encoded = <<"G", "E", "N">>
        /\ ty = "Generic" => encoded = <<"G", "E", "N">>

\* Unknown was written and read back as Generic.
C8_Witness ==
    /\ pc = "redecoded"
    /\ ty = "Unknown"
    /\ decoded = "Generic"

\* C9: from_str is total: every string gives one variant, by exact match with
\* the case kept; ADVS and AGGR both give AggregatedDatabase, and a string
\* outside the table (the lower-case spelling of a code too) gives Unknown.
C9_FromStrTotal ==
    pc = "decoded" =>
        /\ decoded \in ReferenceTypes
        /\ code \in {CodeADVS, CodeAGGR} => decoded = "AggregatedDatabase"
        /\ code \in WrittenCodes => decoded # "Unknown" /\ to_str(decoded) = code
        /\ code \notin KnownCodes => decoded = "Unknown"

\* The lower-case spelling of a code was read as Unknown.
C9_Witness ==
    /\ pc = "decoded"
    /\ code \notin KnownCodes
    /\ to_uppercase(code) \in KnownCodes
    /\ code # <<>>
    /\ decoded = "Unknown"

(***************************************************************************)
(* import and add_entry                                                    *)
(***************************************************************************)

\* The longest text given to import, in lines.
MaxImportLines == 3

\* The lines the texts given to import are made of: "TY  - BOOK", "AU  - a",
\* "ER  -", the line without separator and "AU  - @k".
ImportPlaces == {1, 3, 6, 8, 9}

ImportSources == UNION {[1..n -> ImportPlaces] : n \in 0..MaxImportLines}

\* The texts of BibTeX field values.
Chunks(s) == <<Chunk("Normal", s)>>

BibArticle ==
    BibEntry(<<"a", "r", "t", "i", "c", "l", "e">>,
             [k \in {"author", "title", "year"} |->
                 CASE k = "author" -> Chunks(<<"a", " ", "a", "n", "d", " ", "b">>)
                   [] k = "title" -> Chunks(<<"a">>)
                   [] k = "year" -> Chunks(<<"2", "0", "2", "0">>)])

BibBook == BibEntry(<<"b", "o", "o", "k">>, [k \in {} |-> <<>>])

BibMisc ==
    BibEntry(<<"m", "i", "s", "c">>,
             [k \in {"pages", "keywords"} |->
                 CASE k = "pages" -> Chunks(<<"1", "-", "-", "2">>)
                   [] k = "keywords" -> Chunks(<<"a", ",", " ", "b", ";", " ", "c">>)])

\* ParseError { span, kind }.
ParseError(start, end, kind) == [span |-> <<start, end>>, kind |-> kind]

BibOk(es) == [state |-> "Ok", entries |-> es]
BibErr(error) == [state |-> "Err", error |-> error]

\* What Bibliography::parse may return for a text with an "@".
BibResults ==
    {BibOk(<<>>), BibOk(<<BibArticle>>), BibOk(<<BibBook, BibBook>>),
     BibOk(<<BibArticle, BibMisc>>),
     BibErr(ParseError(0, 1, "Expected")), BibErr(ParseError(2, 2, "UnexpectedEof"))}

\* Bibliography::parse: a text without an at sign holds no entry and is an
\* empty bibliography; of a text with an at sign the outcome is left open.
BibliographyParse(text) ==
    IF contains(text, <<"@">>) THEN BibResults ELSE {BibOk(<<>>)}

\* The values import returns.
Ok(value) == [kind |-> "Ok", result |-> value]
Err(error) == [kind |-> "Err", error |-> error]
BibtexImported == [variant |-> "BibtexImported"]
BibtexError(error) == [variant |-> "BibtexError", error |-> error]
RisImported == [variant |-> "RisImported"]
RisError(error) == [variant |-> "RisError", error |-> error]
UnrecognizedFormat == [variant |-> "UnrecognizedFormat"]

\* The folders import may find: an empty one, and one that holds a record
\* under the name of a record without author, title and year.
InitialFolders ==
    {EmptyFolder,
     [name \in {first_file_name(NoEntry)} |-> to_string(NoEntry, <<>>)]}

\* A directory after fs::write(name, text).
written(dir, name, text) ==
    [n \in (DOMAIN dir) \cup {name} |-> IF n = name THEN text ELSE dir[n]]

parseIdle == <<lines_iter, line_number, entries, current_fields, current_ty, has_ty>>

\* import is left with a value.
Return(value) ==
    /\ outcome' = value
    /\ pc' = "returned"

\* A storage or git step fails and its error is returned with `?`.
Fail(step) ==
    /\ Return(Err(step))
    /\ failure' = step

\* fs::create_dir_all(project_path)?
CreateProjectDir ==
    /\ pc = "import"
    /\ \E ok \in BOOLEAN :
          IF ok THEN pc' = "bibtex" /\ UNCHANGED <<outcome, failure>>
          ELSE Fail("fs::create_dir_all")
    /\ UNCHANGED <<src, content, entry, parseIdle, result, typeVars, bibliography,
                   ris_ran, format, pending, file_name, counter, files, index,
                   commits, writes>>
    /\ UNCHANGED nameVars
    /\ UNCHANGED exportVars
    /\ UNCHANGED otherVars

\* The match on Bibliography::parse with an Err arm that goes on to the RIS parser.
ParseBibtex_falls_through ==
    /\ pc = "bibtex"
    /\ \E r \in BibliographyParse(content) :
          /\ bibliography' = r
          /\ IF r.state = "Ok" /\ r.entries # <<>>
             THEN /\ pending' = [i \in DOMAIN r.entries |-> RisEntry_from(r.entries[i])]
                  /\ format' = "bibtex"
                  /\ pc' = "for"
                  /\ UNCHANGED outcome
             ELSE /\ pc' = "ris"
                  /\ UNCHANGED <<pending, format, outcome>>
    /\ UNCHANGED <<src, content, entry, parseIdle, result, typeVars, ris_ran,
                   file_name, counter, files, index, commits, writes>>
    /\ UNCHANGED failure
    /\ UNCHANGED nameVars
    /\ UNCHANGED exportVars
    /\ UNCHANGED otherVars

\* The match on Bibliography::parse with an Ok arm that returns BibtexImported
\* for an empty bibliography too.
ParseBibtex_empty_short_circuits ==
    /\ pc = "bibtex"
    /\ \E r \in BibliographyParse(content) :
          /\ bibliography' = r
          /\ IF r.state = "Ok"
             THEN /\ pending' = [i \in DOMAIN r.entries |-> RisEntry_from(r.entries[i])]
                  /\ format' = "bibtex"
                  /\ pc' = "for"
                  /\ UNCHANGED outcome
             ELSE /\ Return(Ok(BibtexError(r.error)))
                  /\ UNCHANGED <<pending, format>>
    /\ UNCHANGED <<src, content, entry, parseIdle, result, typeVars, ris_ran,
                   file_name, counter, files, index, commits, writes>>
    /\ UNCHANGED failure
    /\ UNCHANGED nameVars
    /\ UNCHANGED exportVars
    /\ UNCHANGED otherVars

\* match Bibliography::parse(&text): a bibliography with entries is stored, an
\* empty one leaves the text to the RIS parser, an error is returned.
ParseBibtex ==
    /\ pc = "bibtex"
    /\ \E r \in BibliographyParse(content) :
          /\ bibliography' = r
          /\ IF r.state = "Ok"
             THEN IF r.entries # <<>>
                  THEN /\ pending' = [i \in DOMAIN r.entries |-> RisEntry_from(r.entries[i])]
                       /\ format' = "bibtex"
                       /\ pc' = "for"
                       /\ UNCHANGED outcome
                  ELSE /\ pc' = "ris"
                       /\ UNCHANGED <<pending, format, outcome>>
             ELSE /\ Return(Ok(BibtexError(r.error)))
                  /\ UNCHANGED <<pending, format>>
    /\ UNCHANGED <<src, content, entry, parseIdle, result, typeVars, ris_ran,
                   file_name, counter, files, index, commits, writes>>
    /\ UNCHANGED failure
    /\ UNCHANGED nameVars
    /\ UNCHANGED exportVars
    /\ UNCHANGED otherVars

\* The match on parse_ris with an Err arm that hands the error on with `?`.
ParseRis_propagates ==
    /\ pc = "ris"
    /\ result' = parse_ris(content)
    /\ ris_ran' = TRUE
    /\ IF result'.ok
       THEN IF result'.entries # <<>>
            THEN /\ pending' = result'.entries
                 /\ format' = "ris"
                 /\ pc' = "for"
                 /\ UNCHANGED outcome
            ELSE /\ Return(Ok(UnrecognizedFormat))
                 /\ UNCHANGED <<pending, format>>
       ELSE /\ Return(Err(result'.error))
            /\ UNCHANGED <<pending, format>>
    /\ UNCHANGED <<src, content, entry, parseIdle, typeVars, bibliography,
                   file_name, counter, files, index, commits, writes>>
    /\ UNCHANGED failure
    /\ UNCHANGED nameVars
    /\ UNCHANGED exportVars
    /\ UNCHANGED otherVars

\* match ris::parse_ris(&text): records are stored, an error is returned, and
\* a text without records is of no recognized format.
ParseRis ==
    /\ pc = "ris"
    /\ result' = parse_ris(content)
    /\ ris_ran' = TRUE
    /\ IF result'.ok
       THEN IF result'.entries # <<>>
            THEN /\ pending' = result'.entries
                 /\ format' = "ris"
                 /\ pc' = "for"
                 /\ UNCHANGED outcome
            ELSE /\ Return(Ok(UnrecognizedFormat))
                 /\ UNCHANGED <<pending, format>>
       ELSE /\ Return(Ok(RisError(result'.error)))
            /\ UNCHANGED <<pending, format>>
    /\ UNCHANGED <<src, content, entry, parseIdle, typeVars, bibliography,
                   file_name, counter, files, index, commits, writes>>
    /\ UNCHANGED failure
    /\ UNCHANGED nameVars
    /\ UNCHANGED exportVars
    /\ UNCHANGED otherVars

\* for entry in ... { add_entry(entry, project_path)?; } return Ok(...Imported)
ForEntry ==
    /\ pc = "for"
    /\ IF pending # <<>>
       THEN /\ entry' = Head(pending)
            /\ pending' = Tail(pending)
            /\ pc' = "add_entry"
            /\ UNCHANGED outcome
       ELSE /\ Return(Ok(IF format = "bibtex" THEN BibtexImported ELSE RisImported))
            /\ UNCHANGED <<entry, pending>>
    /\ UNCHANGED <<src, content, parseIdle, result, typeVars, bibliography, ris_ran,
                   format, file_name, counter, files, index, commits, writes>>
    /\ UNCHANGED failure
    /\ UNCHANGED nameVars
    /\ UNCHANGED exportVars
    /\ UNCHANGED otherVars

\* add_entry up to its loop: the folder is created, where a failure ends the
\* call with Ok(()), and the first file name is formed.
AddEntryCreateDir ==
    /\ pc = "add_entry"
    /\ \E ok \in BOOLEAN :
          IF ok
          THEN /\ sanitized_author' = sanitize(author_of(entry))
               /\ sanitized_title' = sanitize(title_of(entry))
               /\ year' = year_of(entry)
               /\ file_name' = format_file_name(sanitized_author', sanitized_title', year')
               /\ counter' = 1
               /\ pc' = "exists"
               /\ UNCHANGED failure
          ELSE /\ pc' = "for"
               /\ failure' = "fs::create_dir_all(ris_files)"
               /\ UNCHANGED <<file_name, counter, nameVars>>
    /\ UNCHANGED <<src, content, entry, parseIdle, result, typeVars, bibliography,
                   ris_ran, format, pending, files, index, commits, writes, outcome>>
    /\ UNCHANGED exportVars
    /\ UNCHANGED otherVars

\* The test of file_path.exists() made once, with `if` in place of `while`.
AddEntryExists_checks_once ==
    /\ pc = "exists"
    /\ IF file_name \in DOMAIN files
       THEN /\ file_name' = format_numbered(sanitized_author, sanitized_title, year, counter)
            /\ counter' = counter + 1
            /\ pc' = "write"
       ELSE /\ pc' = "write"
            /\ UNCHANGED <<file_name, counter>>
    /\ UNCHANGED <<src, content, entry, parseIdle, result, typeVars, bibliography,
                   ris_ran, format, pending, files, index, commits, writes, outcome>>
    /\ UNCHANGED failure
    /\ UNCHANGED nameVars
    /\ UNCHANGED exportVars
    /\ UNCHANGED otherVars

\* The loop of add_entry with a counter that goes up by two.
AddEntryExists_skips ==
    /\ pc = "exists"
    /\ IF file_name \in DOMAIN files
       THEN /\ file_name' = format_numbered(sanitized_author, sanitized_title, year, counter)
            /\ counter' = counter + 2
            /\ UNCHANGED pc
       ELSE /\ pc' = "write"
            /\ UNCHANGED <<file_name, counter>>
    /\ UNCHANGED <<src, content, entry, parseIdle, result, typeVars, bibliography,
                   ris_ran, format, pending, files, index, commits, writes, outcome>>
    /\ UNCHANGED failure
    /\ UNCHANGED nameVars
    /\ UNCHANGED exportVars
    /\ UNCHANGED otherVars

\* while file_path.exists() { ... counter += 1; }
AddEntryExists ==
    /\ pc = "exists"
    /\ IF file_name \in DOMAIN files
       THEN /\ file_name' = format_numbered(sanitized_author, sanitized_title, year, counter)
            /\ counter' = counter + 1
            /\ UNCHANGED pc
       ELSE /\ pc' = "write"
            /\ UNCHANGED <<file_name, counter>>
    /\ UNCHANGED <<src, content, entry, parseIdle, result, typeVars, bibliography,
                   ris_ran, format, pending, files, index, commits, writes, outcome>>
    /\ UNCHANGED failure
    /\ UNCHANGED nameVars
    /\ UNCHANGED exportVars
    /\ UNCHANGED otherVars

\* fs::write(&file_path, entry.to_string())?
AddEntryWrite ==
    /\ pc = "write"
    /\ \E ok \in BOOLEAN :
          IF ok
          THEN \E order \in Orders(DOMAIN entry.fields) :
                  LET text == to_string(entry, order)
                  IN  /\ files' = written(files, file_name, text)
                      /\ writes' = Append(writes, [name |-> file_name, text |-> text,
                                                   entry |-> entry, before |-> files])
                      /\ pc' = "add_all"
                      /\ UNCHANGED <<outcome, failure>>
          ELSE /\ Fail("fs::write")
               /\ UNCHANGED <<files, writes>>
    /\ UNCHANGED <<src, content, entry, parseIdle, result, typeVars, bibliography,
                   ris_ran, format, pending, file_name, counter, index, commits>>
    /\ UNCHANGED nameVars
    /\ UNCHANGED exportVars
    /\ UNCHANGED otherVars

\* repo::add_all(&project_path)?
AddEntryAddAll ==
    /\ pc = "add_all"
    /\ \E ok \in BOOLEAN :
          IF ok
          THEN /\ index' = files
               /\ pc' = "commit"
               /\ UNCHANGED <<outcome, failure>>
          ELSE /\ Fail("git add --all")
               /\ UNCHANGED index
    /\ UNCHANGED <<src, content, entry, parseIdle, result, typeVars, bibliography,
                   ris_ran, format, pending, file_name, counter, files, commits, writes>>
    /\ UNCHANGED nameVars
    /\ UNCHANGED exportVars
    /\ UNCHANGED otherVars

\* repo::commit(&project_path, &commit_message)?; Ok(())
AddEntryCommit ==
    /\ pc = "commit"
    /\ \E ok \in BOOLEAN :
          IF ok
          THEN /\ commits' = Append(commits, [message |-> <<"A", "d", "d", "e", "d", " ">> \o file_name,
                                              tree |-> index])
               /\ pc' = "for"
               /\ UNCHANGED <<outcome, failure>>
          ELSE /\ Fail("git commit")
               /\ UNCHANGED commits
    /\ UNCHANGED <<src, content, entry, parseIdle, result, typeVars, bibliography,
                   ris_ran, format, pending, file_name, counter, files, index, writes>>
    /\ UNCHANGED nameVars
    /\ UNCHANGED exportVars
    /\ UNCHANGED otherVars

\* import called on each text, in a project whose folder is one of InitialFolders.
InitImport ==
    /\ src \in ImportSources
    /\ content = Render(src)
    /\ entry = NoEntry
    /\ pc = "import"
    /\ lines_iter = <<>>
    /\ line_number = 0
    /\ entries = ParserStart.entries
    /\ current_fields = ParserStart.current_fields
    /\ current_ty = ParserStart.current_ty
    /\ has_ty = ParserStart.has_ty
    /\ result = NoResult
    /\ TypesIdle
    /\ bibliography = NotParsed
    /\ ris_ran = FALSE
    /\ format = "none"
    /\ pending = <<>>
    /\ file_name = <<>>
    /\ counter = 0
    /\ sanitized_author = <<>>
    /\ sanitized_title = <<>>
    /\ year = <<>>
    /\ files \in InitialFolders
    /\ index = files
    /\ commits = <<>>
    /\ writes = <<>>
    /\ outcome = Running
    /\ failure = "none"
    /\ ExportIdle
    /\ OthersIdle

NextImport ==
    \/ CreateProjectDir
    \/ ParseBibtex
    \/ ParseRis
    \/ ForEntry
    \/ AddEntryCreateDir
    \/ AddEntryExists
    \/ AddEntryWrite
    \/ AddEntryAddAll
    \/ AddEntryCommit

SpecImport == InitImport /\ [][NextImport]_vars

\* C10: once the BibTeX parser has failed on the text, import has returned
\* Ok(BibtexError) with the error the parser gave, parse_ris has not been
\* called, and no file has been written, staged or committed.
C10_BibtexErrorReturned ==
    bibliography.state = "Err" =>
        /\ pc = "returned"
        /\ outcome = Ok(BibtexError(bibliography.error))
        /\ ~ris_ran
        /\ result = NoResult
        /\ writes = <<>>
        /\ commits = <<>>
        /\ \E folder \in InitialFolders : files = folder /\ index = folder

\* C10: the BibTeX parser has failed on a text that parse_ris reads as
\* records, and import has returned.
C10_Witness ==
    /\ bibliography.state = "Err"
    /\ pc = "returned"
    /\ parse_ris(content).ok
    /\ parse_ris(content).entries # <<>>

\* Both parsers have run on the text and each has given an empty list.
BothEmpty ==
    /\ bibliography = BibOk(<<>>)
    /\ ris_ran
    /\ result.ok
    /\ result.entries = <<>>

\* C11: import returns UnrecognizedFormat exactly when the BibTeX parser gave
\* an empty bibliography and the RIS parser an empty list of records (an
\* empty bibliography does not keep the RIS parser from running); and a call
\* with the empty text, once the project folder is there, returns
\* UnrecognizedFormat and writes, stages and commits nothing.
C11_UnrecognizedWhenBothEmpty ==
    /\ BothEmpty => (pc = "returned" /\ outcome = Ok(UnrecognizedFormat))
    /\ outcome = Ok(UnrecognizedFormat) => BothEmpty
    /\ (bibliography = BibOk(<<>>) /\ pc = "returned") => ris_ran
    /\ (content = <<>> /\ pc = "returned") =>
          /\ outcome \in {Ok(UnrecognizedFormat), Err("fs::create_dir_all")}
          /\ writes = <<>>
          /\ commits = <<>>
          /\ \E folder \in InitialFolders : files = folder /\ index = folder

\* C11: import of the empty text has returned UnrecognizedFormat.
C11_Witness ==
    /\ content = <<>>
    /\ pc = "returned"
    /\ outcome = Ok(UnrecognizedFormat)

\* The records import has parsed from the text, in parse order.
ParsedRecords ==
    IF bibliography.state = "Ok" /\ bibliography.entries # <<>>
    THEN [i \in DOMAIN bibliography.entries |-> RisEntry_from(bibliography.entries[i])]
    ELSE IF ris_ran /\ result.ok THEN result.entries
    ELSE <<>>

\* import has returned BibtexImported or RisImported.
Imported ==
    /\ pc = "returned"
    /\ outcome \in {Ok(BibtexImported), Ok(RisImported)}

\* The i-th write of the call was the i-th of the records, into a file that
\* was not there, and the file still holds it.
StoredAt(i, record) ==
    /\ i \in DOMAIN writes
    /\ writes[i].name \notin DOMAIN writes[i].before
    /\ \E order \in Orders(DOMAIN record.fields) : writes[i].text = to_string(record, order)
    /\ writes[i].name \in DOMAIN files
    /\ files[writes[i].name] = writes[i].text

\* The i-th commit of the call was made for the file of the i-th write.
CommittedAt(i) ==
    /\ i \in DOMAIN commits
    /\ i \in DOMAIN writes
    /\ commits[i].message = <<"A", "d", "d", "e", "d", " ">> \o writes[i].name
    /\ writes[i].name \in DOMAIN commits[i].tree

\* C12: when import has returned BibtexImported or RisImported, each of
\* the k records parsed from the text has been written, in parse order, to a
\* file of its own that was not there before and holds to_string of the
\* record, and one commit has been made per file.
C12_EveryRecordPersisted ==
    Imported =>
        /\ Len(writes) = Len(ParsedRecords)
        /\ Len(commits) = Len(ParsedRecords)
        /\ \A i \in DOMAIN ParsedRecords :
              StoredAt(i, ParsedRecords[i]) /\ CommittedAt(i)

\* C13: a failure of the BibTeX parser or of the RIS parser is returned by
\* import as the value Ok(BibtexError) or Ok(RisError) with the error of the
\* parser; import returns Err only with the error of a storage or git step
\* that has failed.
C13_ParseFailuresAreValues ==
    /\ bibliography.state = "Err" =>
          (pc = "returned" /\ outcome = Ok(BibtexError(bibliography.error)))
    /\ (ris_ran /\ ~result.ok) =>
          (pc = "returned" /\ outcome = Ok(RisError(result.error)))
    /\ pc = "returned" => outcome.kind \in {"Ok", "Err"}
    /\ outcome.kind = "Err" => (failure # "none" /\ outcome = Err(failure))

\* C13: the RIS parser has failed on the text and import has returned RisError.
C13_Witness ==
    /\ ris_ran
    /\ ~result.ok
    /\ pc = "returned"
    /\ outcome = Ok(RisError(result.error))

(***************************************************************************)
(* add_entry called again and again on one folder                          *)
(***************************************************************************)

\* The most records one text holds for add_entry.
MaxCalls == 3

\* The blocks the texts are made of: two records that differ in the year
\* only, the year of the second being the year of the first with "_1", and
\* a record without fields.
CallBlocks ==
    << <<"T", "Y", " ", " ", "-", " ", "J", "O", "U", "R", "\n", "A", "U", " ", " ", "-", " ", "a", "\n", "P", "Y", " ", " ", "-", " ", "2", "0", "2", "0", "\n", "E", "R", " ", " ", "-">>,
       <<"T", "Y", " ", " ", "-", " ", "J", "O", "U", "R", "\n", "A", "U", " ", " ", "-", " ", "a", "\n", "P", "Y", " ", " ", "-", " ", "2", "0", "2", "0", "_", "1", "\n", "E", "R", " ", " ", "-">>,
       <<"T", "Y", " ", " ", "-", " ", "B", "O", "O", "K", "\n", "E", "R", " ", " ", "-">> >>

CallSources == UNION {[1..n -> DOMAIN CallBlocks] : n \in 0..MaxCalls}

CallText(s) == join([i \in DOMAIN s |-> CallBlocks[s[i]]], <<"\n">>)

\* import at the point where Bibliography::parse has found no entry and
\* parse_ris has returned the records of the text: the loop over the records
\* is about to call add_entry for each.
InitAddEntry ==
    /\ src = <<>>
    /\ \E s \in CallSources : content = CallText(s)
    /\ entry = NoEntry
    /\ lines_iter = <<>>
    /\ line_number = 0
    /\ entries = ParserStart.entries
    /\ current_fields = ParserStart.current_fields
    /\ current_ty = ParserStart.current_ty
    /\ has_ty = ParserStart.has_ty
    /\ result = parse_ris(content)
    /\ TypesIdle
    /\ bibliography = BibOk(<<>>)
    /\ ris_ran = TRUE
    /\ format = "ris"
    /\ pending = result.entries
    /\ pc = "for"
    /\ file_name = <<>>
    /\ counter = 0
    /\ sanitized_author = <<>>
    /\ sanitized_title = <<>>
    /\ year = <<>>
    /\ files \in InitialFolders
    /\ index = files
    /\ commits = <<>>
    /\ writes = <<>>
    /\ outcome = Running
    /\ failure = "none"
    /\ ExportIdle
    /\ OthersIdle

NextAddEntry ==
    \/ ForEntry
    \/ AddEntryCreateDir
    \/ AddEntryExists
    \/ AddEntryWrite
    \/ AddEntryAddAll
    \/ AddEntryCommit

SpecAddEntry == InitAddEntry /\ [][NextAddEntry]_vars

\* The folder before the first write of the run.
FolderAtStart == IF writes = <<>> THEN files ELSE writes[1].before

\* C14: every write of add_entry went to a name that was not in the folder
\* when the call was made, whatever records came before (the same record
\* again, or one whose year is that of an earlier record with "_1"): each
\* write added one file, and every file keeps the content it had.
C14_NeverOverwrites ==
    /\ \A i \in DOMAIN writes :
          /\ writes[i].name \notin DOMAIN writes[i].before
          /\ \A n \in DOMAIN writes[i].before :
                n \in DOMAIN files /\ files[n] = writes[i].before[n]
          /\ files[writes[i].name] = writes[i].text
    /\ Cardinality(DOMAIN files) = Cardinality(DOMAIN FolderAtStart) + Len(writes)
    /\ Len(commits) <= Len(writes)
    /\ (failure = "none" /\ pc \in {"for", "returned"}) =>
          (Len(commits) = Len(writes) /\ Len(writes) + Len(pending) = Len(result.entries))

\* C14: three records have been stored, the third the same as the first and
\* the second with the year of the first and "_1", each in a file of its own.
C14_Witness ==
    /\ Len(writes) = 3
    /\ Len(result.entries) = 3
    /\ result.entries[1] = result.entries[3]
    /\ year_of(result.entries[2]) = year_of(result.entries[1]) \o <<"_", "1">>
    /\ Cardinality({writes[i].name : i \in DOMAIN writes}) = 3

\* The calls of add_entry one after the other, the loop over the names never
\* halted for ever.
SpecAddEntryLive == InitAddEntry /\ [][NextAddEntry]_vars /\ WF_vars(AddEntryExists)

\* The name add_entry takes for a record in a folder: the first name when it
\* is free, else the numbered name of the smallest n >= 1 that is free.
SmallestFree(name, record, folder) ==
    IF first_file_name(record) \notin DOMAIN folder
    THEN name = first_file_name(record)
    ELSE \E n \in 1..(Cardinality(DOMAIN folder) + 1) :
            /\ name = numbered_file_name(record, n)
            /\ name \notin DOMAIN folder
            /\ \A m \in 1..(n - 1) : numbered_file_name(record, m) \in DOMAIN folder

\* Every write so far went to the name SmallestFree gives, the loop has not
\* counted further than the folder has files, and the same record stored
\* three times into an empty folder has taken base, base_1 and base_2 in turn.
ChosenNames ==
    /\ \A i \in DOMAIN writes :
          SmallestFree(writes[i].name, writes[i].entry, writes[i].before)
    /\ pc \in {"exists", "write"} => counter <= Cardinality(DOMAIN files) + 1
    /\ pc = "write" => SmallestFree(file_name, entry, files)
    /\ (/\ Len(writes) = 3
        /\ FolderAtStart = EmptyFolder
        /\ writes[1].entry = writes[2].entry
        /\ writes[2].entry = writes[3].entry) =>
          /\ writes[1].name = first_file_name(writes[1].entry)
          /\ writes[2].name = numbered_file_name(writes[1].entry, 1)
          /\ writes[3].name = numbered_file_name(writes[1].entry, 2)

\* C15: when the first name is taken, add_entry chooses the numbered name of
\* the smallest n >= 1 that is free; its loop over the names always comes to
\* an end; and the same record stored three times into an empty folder gives
\* base.ris, base_1.ris and base_2.ris in that order.
C15_SmallestFreeSuffix == []ChosenNames /\ (pc = "exists" ~> pc = "write")

\* C15: the same record has been stored three times into an empty folder.
C15_Witness ==
    /\ Len(writes) = 3
    /\ FolderAtStart = EmptyFolder
    /\ writes[1].entry = writes[2].entry
    /\ writes[2].entry = writes[3].entry
    /\ writes[3].name = numbered_file_name(writes[1].entry, 2)

(***************************************************************************)
(* The file name of a record                                               *)
(***************************************************************************)

\* The values of a tag in a record given to add_entry (none when the tag is
\* absent), with the part of the file name they are to give.
NameCase(values, part) == [values |-> values, part |-> part]

AuthorCases ==
    << NameCase(<<>>, <<"n", "o", "a", "u", "t", "h", "o", "r">>),
       NameCase(<< <<"D", "o", "e", ",", " ", "J", "o", "h", "n">> >>, <<"d", "o", "e">>),
       NameCase(<< <<" ", "V", "a", "n", " ", "D", "y", "k", " ", ",", " ", "A">>, <<"D", "o", "e", ",", " ", "J", "o", "h", "n">> >>, <<"v", "a", "n", "_", "d", "y", "k">>),
       NameCase(<< <<"O", "'", "N", "e", "i", "l">> >>, <<"o", "_", "n", "e", "i", "l">>),
       NameCase(<< <<",", "x">> >>, <<>>) >>

TitleCases ==
    << NameCase(<<>>, <<"n", "o", "t", "i", "t", "l", "e">>),
       NameCase(<< <<"a", " ", "s", "t", "u", "d", "y", " ", "o", "f", " ", "C", "a", "t", "s", "!">> >>, <<"c", "a", "t", "s", "_">>),
       NameCase(<< <<"t", "h", "e", " ", "o", "f">>, <<"C", "a", "t", "s">> >>, <<"n", "o", "t", "i", "t", "l", "e">>),
       NameCase(<< <<" ", "D", "e", "e", "p", "\t", "l", "e", "a", "r", "n", "i", "n", "g">> >>, <<"d", "e", "e", "p">>),
       NameCase(<< <<"x", "-", "r", "a", "y", " ", "2">> >>, <<"x", "_", "r", "a", "y">>) >>

YearCases ==
    << NameCase(<<>>, <<"n", "o", "d", "a", "t", "e">>),
       NameCase(<< <<" ", "2", "0", "2", "0", " ">>, <<"1", "9", "9", "9">> >>, <<"2", "0", "2", "0">>),
       NameCase(<< <<"2", "0", "2", "0", "_", "1">> >>, <<"2", "0", "2", "0", "_", "1">>),
       NameCase(<< <<"c", ".", " ", "1", "9", "9", "9", "?">> >>, <<"c", ".", " ", "1", "9", "9", "9", "?">>) >>

\* The record with these values of AU, TI and PY, a tag without value being absent.
NameRecord(au, ti, py) ==
    LET given == {t \in {TagAU, TagTI, TagPY} :
                     \/ t = TagAU /\ au # <<>>
                     \/ t = TagTI /\ ti # <<>>
                     \/ t = TagPY /\ py # <<>>}
    IN  RisEntry("Journal",
                 [t \in given |-> IF t = TagAU THEN au ELSE IF t = TagTI THEN ti ELSE py])

\* add_entry called on each record of the cases; src holds the places of
\* the cases the record was made of.
InitFileName ==
    /\ src \in (DOMAIN AuthorCases) \X (DOMAIN TitleCases) \X (DOMAIN YearCases)
    /\ entry = NameRecord(AuthorCases[src[1]].values, TitleCases[src[2]].values,
                          YearCases[src[3]].values)
    /\ content = <<>>
    /\ pc = "add_entry"
    /\ lines_iter = <<>>
    /\ line_number = 0
    /\ entries = ParserStart.entries
    /\ current_fields = ParserStart.current_fields
    /\ current_ty = ParserStart.current_ty
    /\ has_ty = ParserStart.has_ty
    /\ result = NoResult
    /\ TypesIdle
    /\ ImportIdle
    /\ ExportIdle
    /\ OthersIdle

NextFileName == AddEntryCreateDir \/ AddEntryExists

SpecFileName == InitFileName /\ [][NextFileName]_vars

\* C16: the first file name add_entry tries is "{author}_{title}_{year}.ris"
\* with the parts the first values of AU, TI and PY are to give: the author up
\* to the first comma, trimmed, lower-cased and sanitized, or "noauthor"; the
\* first word of the title that is not a stop-word, lower-cased and
\* sanitized, or "notitle"; the year trimmed and otherwise as written, or "nodate".
C16_FileNameFromFirstValues ==
    pc \in {"exists", "write"} =>
        /\ sanitized_author = AuthorCases[src[1]].part
        /\ sanitized_title = TitleCases[src[2]].part
        /\ year = YearCases[src[3]].part
        /\ file_name = AuthorCases[src[1]].part \o <<"_">> \o TitleCases[src[2]].part
                          \o <<"_">> \o YearCases[src[3]].part \o <<".", "r", "i", "s">>

\* C16: the name of a record with the authors " Van Dyk , A" and "Doe, John",
\* the title "a study of Cats!" and the years " 2020 " and "1999" has been formed.
C16_Witness ==
    /\ pc = "write"
    /\ Len(src) = 3
    /\ src = <<3, 2, 2>>
    /\ file_name = <<"v", "a", "n", "_", "d", "y", "k", "_", "c", "a", "t", "s", "_", "_", "2", "0", "2", "0", ".", "r", "i", "s">>

(***************************************************************************)
(* The record of a BibTeX entry                                            *)
(***************************************************************************)

\* A pages field with the SP and EP values it is to give; `given` tells
\* whether the entry has the field at all.
PagesCase(given, value, sp, ep) == [given |-> given, value |-> value, sp |-> sp, ep |-> ep]

PagesCases ==
    << PagesCase(FALSE, <<>>, <<>>, <<>>),
       PagesCase(TRUE, <<"1", "0", "0", "-", "-", "1", "1", "0">>, << <<"1", "0", "0">> >>, << <<"1", "1", "0">> >>),
       PagesCase(TRUE, <<"4", "5">>, << <<"4", "5">> >>, <<>>),
       PagesCase(TRUE, <<" ", "1", "2", " ">> \o <<EnDash>> \o <<" ", "1", "5", " ">>, << <<"1", "2">> >>, << <<"1", "5">> >>),
       PagesCase(TRUE, <<"7">> \o <<EmDash>> \o <<"9">>, << <<"7">> >>, << <<"9">> >>),
       PagesCase(TRUE, <<"1", "-", "-", "2", "-", "-", "3">>, << <<"1", "-", "-", "2", "-", "-", "3">> >>, <<>>),
       PagesCase(TRUE, <<"1", "-", "-", "2", "-", "-", "3">> \o <<EnDash>> \o <<"4">>, << <<"1", "-", "-", "2", "-", "-", "3">> >>, << <<"4">> >>),
       PagesCase(TRUE, <<"1">> \o <<EnDash>> \o <<"2", "-", "-", "3">>,
                 << <<"1">> \o <<EnDash>> \o <<"2">> >>, << <<"3">> >>),
       PagesCase(TRUE, <<"1">> \o <<EnDash>> \o <<"2">> \o <<EnDash>> \o <<"3">> \o <<EmDash>> \o <<"4">>,
                 << <<"1">> \o <<EnDash>> \o <<"2">> \o <<EnDash>> \o <<"3">> >>, << <<"4">> >>),
       PagesCase(TRUE, <<"-", "-", "5">>, <<>>, << <<"5">> >>),
       PagesCase(TRUE, <<"5", " ", "-", "-">>, << <<"5">> >>, <<>>),
       PagesCase(TRUE, <<" ", "i", "x", " ">>, << <<"i", "x">> >>, <<>>),
       PagesCase(TRUE, <<"-", "-">>, <<>>, <<>>),
       PagesCase(TRUE, <<" ", " ">>, <<>>, <<>>),
       PagesCase(TRUE, <<>>, <<>>, <<>>) >>

\* A keywords field with the KW values it is to give.
KeywordsCase(given, value, kw) == [given |-> given, value |-> value, kw |-> kw]

KeywordsCases ==
    << KeywordsCase(FALSE, <<>>, <<>>),
       KeywordsCase(TRUE, <<"a", ",", " ", "b", ";", " ", "c">>, << <<"a">>, <<"b">>, <<"c">> >>),
       KeywordsCase(TRUE, <<"a">>, << <<"a">> >>),
       KeywordsCase(TRUE, <<"a", " ", "b">>, << <<"a", " ", "b">> >>),
       KeywordsCase(TRUE, <<"a", ";", "b">>, << <<"a">>, <<"b">> >>),
       KeywordsCase(TRUE, <<"a", ";", " ", "b", ",", " ", "c", ";">>, << <<"a">>, <<"b">>, <<"c">> >>),
       KeywordsCase(TRUE, <<",", "a", ",", ",", " ", ";", "b">>, << <<"a">>, <<"b">> >>),
       KeywordsCase(TRUE, <<",", ";">>, <<>>),
       KeywordsCase(TRUE, <<" ", "a", " ">>, << <<"a">> >>),
       KeywordsCase(TRUE, <<" ", " ">>, <<>>),
       KeywordsCase(TRUE, <<>>, <<>>) >>

\* The BibTeX entry with these pages and keywords fields.
BibWith(pages, keywords) ==
    LET given == {k \in {"pages", "keywords"} :
                     \/ k = "pages" /\ pages.given
                     \/ k = "keywords" /\ keywords.given}
    IN  BibEntry(<<"a", "r", "t", "i", "c", "l", "e">>,
                 [k \in given |-> Chunks(IF k = "pages" THEN pages.value ELSE keywords.value)])

\* The values of a tag in a record, none when the tag is absent.
ValuesOf(e, tag) == IF tag \in DOMAIN e.fields THEN e.fields[tag] ELSE <<>>

\* RisEntry::from(&bibtex_entry)
FromBibtex ==
    /\ pc = "from"
    /\ entry' = RisEntry_from(bibliography.entries[1])
    /\ pc' = "mapped"
    /\ UNCHANGED <<src, content, parserVars, typeVars, importVars>>
    /\ UNCHANGED exportVars
    /\ UNCHANGED otherVars

\* RisEntry::from called on each entry of the cases; src holds the places of
\* the cases the entry was made of.
InitMapper ==
    /\ src \in (DOMAIN PagesCases) \X (DOMAIN KeywordsCases)
    /\ content = <<>>
    /\ entry = NoEntry
    /\ pc = "from"
    /\ lines_iter = <<>>
    /\ line_number = 0
    /\ entries = ParserStart.entries
    /\ current_fields = ParserStart.current_fields
    /\ current_ty = ParserStart.current_ty
    /\ has_ty = ParserStart.has_ty
    /\ result = NoResult
    /\ TypesIdle
    /\ bibliography = BibOk(<<BibWith(PagesCases[src[1]], KeywordsCases[src[2]])>>)
    /\ ris_ran = FALSE
    /\ format = "none"
    /\ pending = <<>>
    /\ file_name = <<>>
    /\ counter = 0
    /\ sanitized_author = <<>>
    /\ sanitized_title = <<>>
    /\ year = <<>>
    /\ files = EmptyFolder
    /\ index = EmptyFolder
    /\ commits = <<>>
    /\ writes = <<>>
    /\ outcome = Running
    /\ failure = "none"
    /\ ExportIdle
    /\ OthersIdle

NextMapper == FromBibtex

SpecMapper == InitMapper /\ [][NextMapper]_vars

\* C17: the SP and EP values of the record are those the pages field is to
\* give: the field cut at the first of "--", en dash, em dash that occurs in
\* it and cuts it in two, each part trimmed and kept when not empty; else the
\* whole trimmed field as SP when not empty, without EP.
C17_PagesToStartAndEnd ==
    pc = "mapped" =>
        /\ ValuesOf(entry, TagSP) = PagesCases[src[1]].sp
        /\ ValuesOf(entry, TagEP) = PagesCases[src[1]].ep

\* C17: the entry with the pages "1--2--3" + en dash + "4", which "--" cuts
\* in three and the en dash in two, has been mapped.
C17_Witness ==
    /\ pc = "mapped"
    /\ Len(src) = 2
    /\ src[1] = 7
    /\ ValuesOf(entry, TagSP) = << <<"1", "-", "-", "2", "-", "-", "3">> >>
    /\ ValuesOf(entry, TagEP) = << <<"4">> >>

\* C18: the KW values of the record are the fragments of the keywords field
\* cut at "," and then at ";", each trimmed, the empty ones dropped, in the
\* order of the field; so no KW value is empty or has whitespace at either end.
C18_KeywordsTrimmedNonEmpty ==
    pc = "mapped" =>
        /\ ValuesOf(entry, TagKW) = KeywordsCases[src[2]].kw
        /\ \A i \in DOMAIN ValuesOf(entry, TagKW) :
              LET kw == ValuesOf(entry, TagKW)[i]
              IN  kw # <<>> /\ trim(kw) = kw

\* C19: once a storage or git step of an import has failed (the creation of
\* a folder, the write of the file, the staging, the commit), import has
\* returned the error of that step, and never an Ok.
C19_StorageFailuresPropagated ==
    failure # "none" => (pc = "returned" /\ outcome = Err(failure))

(***************************************************************************)
(* handle_export                                                           *)
(***************************************************************************)

None == [some |-> FALSE, v |-> <<>>]
Some(v) == [some |-> TRUE, v |-> v]

\* The place of the last "." of a file name, 0 when it has none.
last_dot(name) ==
    LET dots == {i \in 1..Len(name) : name[i] = "."}
    IN  IF dots = {} THEN 0 ELSE CHOOSE i \in dots : \A j \in dots : j <= i

\* Path::extension: what follows the last "." of the file name; None when
\* there is no "." or the only one is the first character.
extension(name) ==
    IF last_dot(name) <= 1 THEN None
    ELSE Some(SubSeq(name, last_dot(name) + 1, Len(name)))

\* Path::file_stem: what precedes the last "." of the file name, the whole
\* name when extension is None.
file_stem(name) ==
    IF last_dot(name) <= 1 THEN Some(name)
    ELSE Some(SubSeq(name, 1, last_dot(name) - 1))

\* ris_entry_to_bibtex_string: one BibTeX entry of type "misc" under the key
\* given, with the fields of the record.
ris_entry_to_bibtex_string(ris_entry, entry_key) ==
    [entry_type |-> "misc", key |-> entry_key, fields |-> ris_entry.fields]

\* The '\n' pushed after each block.
Newline == [entry_type |-> "\n"]

\* The blocks pushed for the records of one file, each followed by Newline.
RECURSIVE push_entries(_, _, _)
push_entries(text, records, entry_key) ==
    IF records = <<>> THEN text
    ELSE push_entries(text \o <<ris_entry_to_bibtex_string(Head(records), entry_key), Newline>>,
                      Tail(records), entry_key)

\* The files a ris_files folder may hold: a record, a text with a line
\* that is no line of RIS, two records, an empty file, a file that is not
\* named .ris and a file named ".ris", which has no extension.
ExportFiles ==
    << [name |-> <<"a", ".", "r", "i", "s">>, text |-> <<"T", "Y", " ", " ", "-", " ", "B", "O", "O", "K", "\n", "A", "U", " ", " ", "-", " ", "a", "\n", "E", "R", " ", " ", "-">>],
       [name |-> <<"b", ".", "r", "i", "s">>, text |-> <<"T", "Y", " ", " ", "-", " ", "B", "O", "O", "K", "\n", "A", "U", " ", " ", "-", " ", "b", "\n", "B", "a", "d", " ", "-", " ", "\n", "E", "R", " ", " ", "-">>],
       [name |-> <<"c", ".", "d", ".", "r", "i", "s">>, text |-> <<"T", "Y", " ", " ", "-", " ", "J", "O", "U", "R", "\n", "A", "U", " ", " ", "-", " ", "a", "\n", "E", "R", " ", " ", "-", "\n", "T", "Y", " ", " ", "-", " ", "B", "O", "O", "K", "\n", "E", "R", " ", " ", "-", "\n">>],
       [name |-> <<"e", ".", "r", "i", "s">>, text |-> <<>>],
       [name |-> <<"f", ".", "t", "x", "t">>, text |-> <<"T", "Y", " ", " ", "-", " ", "B", "O", "O", "K", "\n", "A", "U", " ", " ", "-", " ", "f", "\n", "E", "R", " ", " ", "-">>],
       [name |-> <<".", "r", "i", "s">>, text |-> <<"T", "Y", " ", " ", "-", " ", "B", "O", "O", "K", "\n", "A", "U", " ", " ", "-", " ", "g", "\n", "E", "R", " ", " ", "-">>] >>

\* The folder with the files at these places of ExportFiles.
ExportFolder(places) ==
    [n \in {ExportFiles[i].name : i \in places} |->
        ExportFiles[CHOOSE i \in places : ExportFiles[i].name = n].text]

ExportFolders == {ExportFolder(places) : places \in SUBSET DOMAIN ExportFiles}

\* The states handle_export may be called in.
ExportStates ==
    {AppState(FALSE, <<>>, ""), AppState(TRUE, <<>>, ""), OneProject}

\* Ok(())
Unit == "()"

exportFrame ==
    <<src, content, entry, parserVars, typeVars, bibliography, ris_ran, format, pending,
      file_name, counter, nameVars, files, index, commits, writes, otherVars>>

\* handle_export up to its loop: the three early returns, then fs::read_dir(..)?
ExportStart ==
    /\ pc = "export"
    /\ IF ~state.initialized \/ state.projects = <<>> \/ ~ris_folder
       THEN /\ Return(Ok(Unit))
            /\ UNCHANGED <<failure, read_dir>>
       ELSE \E ok \in BOOLEAN :
               IF ok
               THEN /\ read_dir' = DOMAIN files
                    /\ pc' = "read_dir"
                    /\ UNCHANGED <<outcome, failure>>
               ELSE /\ Fail("fs::read_dir")
                    /\ UNCHANGED read_dir
    /\ UNCHANGED <<state, ris_folder, bibtex_entries, stderr, output>>
    /\ UNCHANGED exportFrame

\* One iteration of the loop with a parse error handed on with `?`.
ExportFile_aborts_on_parse_error ==
    /\ pc = "read_dir"
    /\ read_dir # {}
    /\ \E name \in read_dir, entry_ok \in BOOLEAN, read_ok \in BOOLEAN :
          LET parsed == parse_ris(files[name])
          IN  /\ read_dir' = read_dir \ {name}
              /\ IF ~entry_ok
                 THEN Fail("fs::read_dir entry") /\ UNCHANGED <<bibtex_entries, stderr>>
                 ELSE IF extension(name) # Some(<<"r", "i", "s">>)
                 THEN UNCHANGED <<pc, outcome, failure, bibtex_entries, stderr>>
                 ELSE IF ~read_ok
                 THEN Fail("fs::read_to_string") /\ UNCHANGED <<bibtex_entries, stderr>>
                 ELSE IF parsed.ok
                 THEN /\ bibtex_entries' =
                            push_entries(bibtex_entries, parsed.entries, file_stem(name).v)
                      /\ UNCHANGED <<pc, outcome, failure, stderr>>
                 ELSE /\ Return(Err(parsed.error))
                      /\ UNCHANGED <<failure, bibtex_entries, stderr>>
    /\ UNCHANGED <<state, ris_folder, output>>
    /\ UNCHANGED exportFrame

\* One iteration of the loop over fs::read_dir: a file named .ris is read and
\* parsed, its records are pushed as BibTeX blocks, and a parse error is
\* printed and the file left out.
ExportFile ==
    /\ pc = "read_dir"
    /\ read_dir # {}
    /\ \E name \in read_dir, entry_ok \in BOOLEAN, read_ok \in BOOLEAN :
          LET parsed == parse_ris(files[name])
          IN  /\ read_dir' = read_dir \ {name}
              /\ IF ~entry_ok
                 THEN Fail("fs::read_dir entry") /\ UNCHANGED <<bibtex_entries, stderr>>
                 ELSE IF extension(name) # Some(<<"r", "i", "s">>)
                 THEN UNCHANGED <<pc, outcome, failure, bibtex_entries, stderr>>
                 ELSE IF ~read_ok
                 THEN Fail("fs::read_to_string") /\ UNCHANGED <<bibtex_entries, stderr>>
                 ELSE IF parsed.ok
                 THEN /\ bibtex_entries' =
                            push_entries(bibtex_entries, parsed.entries, file_stem(name).v)
                      /\ UNCHANGED <<pc, outcome, failure, stderr>>
                 ELSE /\ stderr' = Append(stderr, [path |-> name, err |-> parsed.error])
                      /\ UNCHANGED <<pc, outcome, failure, bibtex_entries>>
    /\ UNCHANGED <<state, ris_folder, output>>
    /\ UNCHANGED exportFrame

\* fs::write(output_path, bibtex_entries)?; Ok(())
ExportWrite ==
    /\ pc = "read_dir"
    /\ read_dir = {}
    /\ \E ok \in BOOLEAN :
          IF ok
          THEN /\ output' = [written |-> TRUE, text |-> bibtex_entries]
               /\ Return(Ok(Unit))
               /\ UNCHANGED failure
          ELSE /\ Fail("fs::write")
               /\ UNCHANGED output
    /\ UNCHANGED <<state, ris_folder, read_dir, bibtex_entries, stderr>>
    /\ UNCHANGED exportFrame

\* handle_export called in each state on each folder.
InitExport ==
    /\ src = <<>>
    /\ content = <<>>
    /\ entry = NoEntry
    /\ pc = "export"
    /\ lines_iter = <<>>
    /\ line_number = 0
    /\ entries = ParserStart.entries
    /\ current_fields = ParserStart.current_fields
    /\ current_ty = ParserStart.current_ty
    /\ has_ty = ParserStart.has_ty
    /\ result = NoResult
    /\ TypesIdle
    /\ bibliography = NotParsed
    /\ ris_ran = FALSE
    /\ format = "none"
    /\ pending = <<>>
    /\ file_name = <<>>
    /\ counter = 0
    /\ sanitized_author = <<>>
    /\ sanitized_title = <<>>
    /\ year = <<>>
    /\ files \in ExportFolders
    /\ index = files
    /\ commits = <<>>
    /\ writes = <<>>
    /\ outcome = Running
    /\ failure = "none"
    /\ state \in ExportStates
    /\ ris_folder \in BOOLEAN
    /\ read_dir = {}
    /\ bibtex_entries = <<>>
    /\ stderr = <<>>
    /\ output = NoOutput
    /\ OthersIdle

NextExport == ExportStart \/ ExportFile \/ ExportWrite

SpecExport == InitExport /\ [][NextExport]_vars

\* The files of the folder named .ris, those among them that parse_ris
\* rejects, and the others.
RisFiles == {n \in DOMAIN files : extension(n) = Some(<<"r", "i", "s">>)}
Unparsable == {n \in RisFiles : ~parse_ris(files[n]).ok}
Parsable == RisFiles \ Unparsable

\* The blocks of the text that stand under a key, in their order.
BlocksUnder(text, key) ==
    LET Under(x) == x.entry_type = "misc" /\ x.key = key
    IN  SelectSeq(text, Under)

\* The blocks the records of a file are to give.
BlocksOf(name) ==
    LET records == parse_ris(files[name]).entries
    IN  [i \in DOMAIN records |->
            ris_entry_to_bibtex_string(records[i], SubSeq(name, 1, Len(name) - 4))]

\* handle_export has gone through the folder without a storage failure.
Exported ==
    /\ pc = "returned"
    /\ state.initialized
    /\ state.projects # <<>>
    /\ ris_folder
    /\ failure = "none"

\* C20: when handle_export has gone through a folder, each .ris file that
\* parse_ris rejects has been reported once and has given no block, the
\* call has returned Ok(()) all the same, and the file written holds, for every
\* other .ris file, the BibTeX blocks of its records under its file stem.
C20_ExportSkipsUnparsable ==
    Exported =>
        /\ outcome = Ok(Unit)
        /\ output.written
        /\ {stderr[i].path : i \in DOMAIN stderr} = Unparsable
        /\ Len(stderr) = Cardinality(Unparsable)
        /\ \A n \in Unparsable :
              BlocksUnder(output.text, SubSeq(n, 1, Len(n) - 4)) = <<>>
        /\ \A n \in Parsable :
              BlocksUnder(output.text, SubSeq(n, 1, Len(n) - 4)) = BlocksOf(n)

\* C20: a folder with a .ris file that does not parse and two that do has
\* been exported.
C20_Witness ==
    /\ Exported
    /\ Cardinality(Unparsable) = 1
    /\ \E n, m \in Parsable : n # m /\ BlocksOf(n) # <<>> /\ BlocksOf(m) # <<>>
    /\ output.written
    /\ Len(output.text) = 6

(***************************************************************************)
(* The lines of to_string                                                  *)
(***************************************************************************)

\* The number of values of a record.
RECURSIVE CountValues(_, _)
CountValues(fields, tags) ==
    IF tags = {} THEN 0
    ELSE LET tag == CHOOSE t \in tags : TRUE
         IN  Len(fields[tag]) + CountValues(fields, tags \ {tag})

\* The places of ls that owner gives to the tag, in their order.
RECURSIVE PlacesOf(_, _, _)
PlacesOf(owner, tag, i) ==
    IF i > Len(owner) THEN <<>>
    ELSE (IF owner[i] = tag THEN <<i>> ELSE <<>>) \o PlacesOf(owner, tag, i + 1)

\* ls holds one "TAG  - value" line per value of the record and nothing else,
\* the values of one tag in their sequence order.
OneLinePerValue(ls, fields) ==
    \E owner \in [DOMAIN ls -> DOMAIN fields] :
        \A tag \in DOMAIN fields :
            LET places == PlacesOf(owner, tag, 1)
            IN  /\ Len(places) = Len(fields[tag])
                /\ \A k \in DOMAIN places :
                      ls[places[k]] = tag \o <<" ", " ", "-", " ">> \o fields[tag][k]

\* The lines of a text: what stands between its line feeds.
TextLines(text) == split(text, <<"\n">>)

\* to_string has just returned.
Serialized == pc = "parse" /\ line_number = 0

\* The output of to_string is as C21 has it.
LinesAsClaimed ==
    LET ls == TextLines(content)
        n  == CountValues(entry.fields, DOMAIN entry.fields)
    IN  /\ Len(ls) = 2 + n
        /\ ls[1] = <<"T", "Y", " ", " ", "-", " ">> \o to_str(entry.ty)
        /\ ls[Len(ls)] = <<"E", "R", " ", " ", "-">>
        /\ OneLinePerValue(SubSeq(ls, 2, Len(ls) - 1), entry.fields)

\* No tag and no value of the record holds a line feed.
NoLineFeed(e) ==
    \A tag \in DOMAIN e.fields :
        /\ ~HasChar(tag, "\n")
        /\ \A i \in DOMAIN e.fields[tag] : ~HasChar(e.fields[tag][i], "\n")

\* C21 as stated: for every record, the output of to_string has 2 + (number
\* of values) lines, the first "TY  - <code>", the last "ER  -", and between
\* them exactly one "TAG  - value" line per value, the values of a tag in
\* their order.
C21_OneLinePerValue == Serialized => LinesAsClaimed

\* C21 amended: the same for every record whose tags and values hold no line
\* feed.
C21_OneLinePerValueNoLineFeed == (Serialized /\ NoLineFeed(entry)) => LinesAsClaimed

\* C21: a record of three tags with two different values under each has been
\* written as eight lines.
C21_Witness ==
    /\ Serialized
    /\ NoLineFeed(entry)
    /\ Cardinality(DOMAIN entry.fields) = 3
    /\ \A tag \in DOMAIN entry.fields :
          Len(entry.fields[tag]) = 2 /\ entry.fields[tag][1] # entry.fields[tag][2]
    /\ Len(TextLines(content)) = 8

(***************************************************************************)
(* Entries and TY lines                                                    *)
(***************************************************************************)

\* C22: when parse_ris succeeds, it returns one record per TY line of the
\* text, the k-th record with the decoded type of the k-th TY line, a TY line
\* followed directly by another TY line included.
C22_OneRecordPerTyLine ==
    (pc = "returned" /\ result.ok) =>
        /\ Len(result.entries) = Cardinality(TyPlaces)
        /\ \A k \in DOMAIN result.entries :
              result.entries[k].ty = Line(NthTy(k, 1)).ty

(***************************************************************************)
(* import and partial batches                                              *)
(***************************************************************************)

\* C23: when import has ended, with an outcome or with the error of a
\* storage step, either every record parsed from the text has been written
\* and committed, or none has.
C23_AllOrNothing ==
    pc = "returned" =>
        \/ commits = <<>>
        \/ /\ Len(commits) = Len(ParsedRecords)
           /\ \A i \in DOMAIN ParsedRecords :
                 StoredAt(i, ParsedRecords[i]) /\ CommittedAt(i)

(***************************************************************************)
(* The server: import calls that run side by side                          *)
(***************************************************************************)

\* The requests POST /add that the server handles at one time.
Requests == {1, 2}

\* The texts posted: a record without fields, a record with author and
\* year, and the two in one text.
ServeTexts ==
    { <<"T", "Y", " ", " ", "-", " ", "B", "O", "O", "K", "\n", "E", "R", " ", " ", "-">>,
      <<"T", "Y", " ", " ", "-", " ", "J", "O", "U", "R", "\n", "A", "U", " ", " ", "-", " ", "a", "\n", "P", "Y", " ", " ", "-", " ", "2", "0", "2", "0", "\n", "E", "R", " ", " ", "-">>,
      <<"T", "Y", " ", " ", "-", " ", "J", "O", "U", "R", "\n", "A", "U", " ", " ", "-", " ", "a", "\n", "P", "Y", " ", " ", "-", " ", "2", "0", "2", "0", "\n", "E", "R", " ", " ", "-", "\n", "T", "Y", " ", " ", "-", " ", "B", "O", "O", "K", "\n", "E", "R", " ", " ", "-">> }

\* The locals of one call of import, at its start.
Call(text) ==
    [pc |-> "import", text |-> text, format |-> "none", pending |-> <<>>, entry |-> NoEntry,
     file_name |-> <<>>, counter |-> 0, sanitized_author |-> <<>>, sanitized_title |-> <<>>,
     year |-> <<>>, outcome |-> Running]

\* The call c goes on with these locals.
Becomes(c, locals) == calls' = [calls EXCEPT ![c] = locals]

\* The call c returns.
Returns(c, value) ==
    Becomes(c, [calls[c] EXCEPT !.pc = "returned", !.outcome = value])

serveFrame ==
    <<pc, src, content, entry, parserVars, typeVars, bibliography, ris_ran, format, pending,
      file_name, counter, nameVars, outcome, failure, exportVars, git, span, stdout>>

\* import up to its loops: fs::create_dir_all(project_path)?, then
\* Bibliography::parse and, on an empty bibliography, parse_ris.
CallImport(c) ==
    /\ calls[c].pc = "import"
    /\ \E ok \in BOOLEAN, parsed \in BibliographyParse(calls[c].text) :
          LET ris == parse_ris(calls[c].text)
          IN  IF ~ok THEN Returns(c, Err("fs::create_dir_all"))
              ELSE IF parsed.state = "Err" THEN Returns(c, Ok(BibtexError(parsed.error)))
              ELSE IF parsed.entries # <<>>
              THEN Becomes(c, [calls[c] EXCEPT
                        !.pc = "for", !.format = "bibtex",
                        !.pending = [i \in DOMAIN parsed.entries |->
                                        RisEntry_from(parsed.entries[i])]])
              ELSE IF ~ris.ok THEN Returns(c, Ok(RisError(ris.error)))
              ELSE IF ris.entries # <<>>
              THEN Becomes(c, [calls[c] EXCEPT
                        !.pc = "for", !.format = "ris", !.pending = ris.entries])
              ELSE Returns(c, Ok(UnrecognizedFormat))
    /\ UNCHANGED <<files, index, commits, writes>>
    /\ UNCHANGED serveFrame

\* for entry in ... { add_entry(entry, project_path)?; } return Ok(...Imported)
CallForEntry(c) ==
    /\ calls[c].pc = "for"
    /\ IF calls[c].pending # <<>>
       THEN Becomes(c, [calls[c] EXCEPT
                !.pc = "add_entry", !.entry = Head(calls[c].pending),
                !.pending = Tail(calls[c].pending)])
       ELSE Returns(c, Ok(IF calls[c].format = "bibtex" THEN BibtexImported ELSE RisImported))
    /\ UNCHANGED <<files, index, commits, writes>>
    /\ UNCHANGED serveFrame

\* add_entry up to its loop.
CallCreateDir(c) ==
    /\ calls[c].pc = "add_entry"
    /\ \E ok \in BOOLEAN :
          IF ok
          THEN LET author == sanitize(author_of(calls[c].entry))
                   title == sanitize(title_of(calls[c].entry))
                   date == year_of(calls[c].entry)
               IN  Becomes(c, [calls[c] EXCEPT
                       !.pc = "exists", !.sanitized_author = author,
                       !.sanitized_title = title, !.year = date,
                       !.file_name = format_file_name(author, title, date),
                       !.counter = 1])
          ELSE Becomes(c, [calls[c] EXCEPT !.pc = "for"])
    /\ UNCHANGED <<files, index, commits, writes>>
    /\ UNCHANGED serveFrame

\* while file_path.exists() { ... }: one test of the condition
CallExists(c) ==
    /\ calls[c].pc = "exists"
    /\ IF calls[c].file_name \in DOMAIN files
       THEN Becomes(c, [calls[c] EXCEPT
                !.file_name = format_numbered(calls[c].sanitized_author,
                                              calls[c].sanitized_title,
                                              calls[c].year, calls[c].counter),
                !.counter = calls[c].counter + 1])
       ELSE Becomes(c, [calls[c] EXCEPT !.pc = "write"])
    /\ UNCHANGED <<files, index, commits, writes>>
    /\ UNCHANGED serveFrame

\* fs::write(&file_path, entry.to_string())?
CallWrite(c) ==
    /\ calls[c].pc = "write"
    /\ \E ok \in BOOLEAN :
          IF ok
          THEN \E order \in Orders(DOMAIN calls[c].entry.fields) :
                  LET text == to_string(calls[c].entry, order)
                  IN  /\ files' = written(files, calls[c].file_name, text)
                      /\ writes' = Append(writes, [name |-> calls[c].file_name, text |-> text,
                                                   entry |-> calls[c].entry, before |-> files])
                      /\ Becomes(c, [calls[c] EXCEPT !.pc = "add_all"])
          ELSE /\ Returns(c, Err("fs::write"))
               /\ UNCHANGED <<files, writes>>
    /\ UNCHANGED <<index, commits>>
    /\ UNCHANGED serveFrame

\* repo::add_all(&project_path)?
CallAddAll(c) ==
    /\ calls[c].pc = "add_all"
    /\ \E ok \in BOOLEAN :
          IF ok
          THEN /\ index' = files
               /\ Becomes(c, [calls[c] EXCEPT !.pc = "commit"])
          ELSE /\ Returns(c, Err("git add --all"))
               /\ UNCHANGED index
    /\ UNCHANGED <<files, commits, writes>>
    /\ UNCHANGED serveFrame

\* repo::commit(&project_path, &commit_message)?; Ok(())
CallCommit(c) ==
    /\ calls[c].pc = "commit"
    /\ \E ok \in BOOLEAN :
          IF ok
          THEN /\ commits' = Append(commits,
                                    [message |-> <<"A", "d", "d", "e", "d", " ">> \o calls[c].file_name,
                                     tree |-> index])
               /\ Becomes(c, [calls[c] EXCEPT !.pc = "for"])
          ELSE /\ Returns(c, Err("git commit"))
               /\ UNCHANGED commits
    /\ UNCHANGED <<files, index, writes>>
    /\ UNCHANGED serveFrame

\* Two requests POST /add are being handled, each with its text, on one
\* project folder.
InitServe ==
    /\ src = <<>>
    /\ content = <<>>
    /\ entry = NoEntry
    /\ pc = "serve"
    /\ lines_iter = <<>>
    /\ line_number = 0
    /\ entries = ParserStart.entries
    /\ current_fields = ParserStart.current_fields
    /\ current_ty = ParserStart.current_ty
    /\ has_ty = ParserStart.has_ty
    /\ result = NoResult
    /\ TypesIdle
    /\ bibliography = NotParsed
    /\ ris_ran = FALSE
    /\ format = "none"
    /\ pending = <<>>
    /\ file_name = <<>>
    /\ counter = 0
    /\ sanitized_author = <<>>
    /\ sanitized_title = <<>>
    /\ year = <<>>
    /\ files \in InitialFolders
    /\ index = files
    /\ commits = <<>>
    /\ writes = <<>>
    /\ outcome = Running
    /\ failure = "none"
    /\ ExportIdle
    /\ calls \in [Requests -> {Call(text) : text \in ServeTexts}]
    /\ git = {}
    /\ span = <<0, 0>>
    /\ stdout = <<>>

NextServe ==
    \E c \in Requests :
        \/ CallImport(c)
        \/ CallForEntry(c)
        \/ CallCreateDir(c)
        \/ CallExists(c)
        \/ CallWrite(c)
        \/ CallAddAll(c)
        \/ CallCommit(c)

SpecServe == InitServe /\ [][NextServe]_vars

\* C24: when two import calls run side by side on one project folder, no
\* write of one call goes to a file the other has written, and when both have
\* returned Imported every record of both calls is in a file of its own.
C24_NoOverwriteAcrossCalls ==
    /\ \A i, j \in DOMAIN writes : i # j => writes[i].name # writes[j].name
    /\ (\A c \in Requests :
           /\ calls[c].pc = "returned"
           /\ calls[c].outcome \in {Ok(BibtexImported), Ok(RisImported)}) =>
          \A i \in DOMAIN writes :
              /\ writes[i].name \in DOMAIN files
              /\ files[writes[i].name] = writes[i].text
              /\ writes[i].name \notin DOMAIN writes[i].before

(***************************************************************************)
(* print_problematic_line                                                  *)
(***************************************************************************)

\* The longest text print_problematic_line is called on.
MaxTextLen == 5

\* str::repeat
repeat(c, n) == [i \in 1..n |-> c]

Min(a, b) == IF a <= b THEN a ELSE b

\* The loop of print_problematic_line from the line line_no on (counted from
\* 0), char_count being the offset reckoned for the start of that line; what
\* it returns is what is printed.
RECURSIVE problematic_line_from(_, _, _, _, _)
problematic_line_from(ls, line_no, char_count, start, end) ==
    IF line_no >= Len(ls)
    THEN << <<"U", "n", "e", "x", "p", "e", "c", "t", "e", "d", " ", "e", "n", "d", " ", "o", "f", " ", "b", "i", "b", "t", "e", "x", ".">> >>
    ELSE LET line == ls[line_no + 1]
             line_start == char_count
             line_end == char_count + Len(line)
         IN  IF start >= line_start /\ start < line_end
             THEN LET indicator_start == start - line_start
                      indicator_end == Min(end - line_start, Len(line))
                  IN  << <<"L", "i", "n", "e", " ">> \o decimal(line_no + 1) \o <<":", " ">> \o line,
                         repeat(" ", 6) \o repeat(" ", indicator_start)
                            \o repeat("-", indicator_end - indicator_start) \o <<"^">> >>
             ELSE problematic_line_from(ls, line_no + 1, char_count + Len(line) + 1, start, end)

\* print_problematic_line(text, start, end): the lines it prints.
print_problematic_line(text, start, end) ==
    problematic_line_from(lines(text), 0, 0, start, end)

\* The texts: letters, line feeds and carriage returns.
SpanTexts == UNION {[1..n -> {"a", "\n", "\r"}] : n \in 0..MaxTextLen}

\* The spans of a text: a start up to one past its end, and an end up to two
\* further.
SpansOf(text) ==
    {<<s, s + k>> : s \in 0..(Len(text) + 1), k \in 0..2}

\* println! of what print_problematic_line prints for the span.
PrintProblematicLine ==
    /\ pc = "print_problematic_line"
    /\ stdout' = print_problematic_line(content, span[1], span[2])
    /\ pc' = "printed"
    /\ UNCHANGED <<src, content, entry, parserVars, typeVars, importVars, exportVars,
                   calls, git, span>>

\* print_problematic_line called on each text with each of its spans.
InitSpan ==
    /\ src = <<>>
    /\ content \in SpanTexts
    /\ span \in SpansOf(content)
    /\ stdout = <<>>
    /\ calls = <<>>
    /\ git = {}
    /\ entry = NoEntry
    /\ pc = "print_problematic_line"
    /\ lines_iter = <<>>
    /\ line_number = 0
    /\ entries = ParserStart.entries
    /\ current_fields = ParserStart.current_fields
    /\ current_ty = ParserStart.current_ty
    /\ has_ty = ParserStart.has_ty
    /\ result = NoResult
    /\ TypesIdle
    /\ ImportIdle
    /\ ExportIdle

NextSpan == PrintProblematicLine

SpecSpan == InitSpan /\ [][NextSpan]_vars

\* The place of the last line feed before the offset, 0 when there is none:
\* the offset at which the line of the offset starts.
LineStartOf(text, offset) ==
    LET feeds == {j \in 1..Min(offset, Len(text)) : text[j] = "\n"}
    IN  IF feeds = {} THEN 0 ELSE CHOOSE j \in feeds : \A k \in feeds : k <= j

\* The number, from 1, of the line that holds the offset: one more than the
\* line feeds before it.
LineNumberOf(text, offset) ==
    Cardinality({j \in 1..Min(offset, Len(text)) : text[j] = "\n"}) + 1

\* The line of the text that holds the offset, without its line ending.
LineAt(text, offset) ==
    LET from_ == LineStartOf(text, offset) + 1
        feeds == {j \in from_..Len(text) : text[j] = "\n"}
        last == IF feeds = {} THEN Len(text)
                ELSE (CHOOSE j \in feeds : \A k \in feeds : j <= k) - 1
        line == SubSeq(text, from_, last)
    IN  IF line # <<>> /\ line[Len(line)] = "\r" /\ feeds # {}
        THEN SubSeq(line, 1, Len(line) - 1) ELSE line

\* C25: for a span whose start lies inside the text, print_problematic_line
\* prints the number and the content of the line that holds the start, and
\* under it a marker at the column of the start in that line; it prints
\* "Unexpected end of bibtex." only when the start is at or beyond the end
\* of the text.
C25_LineOfOffset ==
    pc = "printed" =>
        IF span[1] < Len(content)
        THEN LET col == span[1] - LineStartOf(content, span[1])
             IN  /\ Len(stdout) = 2
                 /\ stdout[1] = <<"L", "i", "n", "e", " ">> \o decimal(LineNumberOf(content, span[1]))
                                   \o <<":", " ">> \o LineAt(content, span[1])
                 /\ Len(stdout[2]) > 6 + col
                 /\ \A i \in 1..(6 + col) : stdout[2][i] = " "
                 /\ stdout[2][6 + col + 1] \in {"-", "^"}
        ELSE stdout = << <<"U", "n", "e", "x", "p", "e", "c", "t", "e", "d", " ", "e", "n", "d", " ", "o", "f", " ", "b", "i", "b", "t", "e", "x", ".">> >>

\* The same for the texts without carriage return, and the spans that start
\* on a character that is no line feed.
LineOfOffsetOffLineFeeds ==
    (/\ pc = "printed"
     /\ \A i \in DOMAIN content : content[i] # "\r"
     /\ span[1] < Len(content) => content[span[1] + 1] # "\n") =>
        IF span[1] < Len(content)
        THEN LET col == span[1] - LineStartOf(content, span[1])
             IN  /\ Len(stdout) = 2
                 /\ stdout[1] = <<"L", "i", "n", "e", " ">> \o decimal(LineNumberOf(content, span[1]))
                                   \o <<":", " ">> \o LineAt(content, span[1])
                 /\ Len(stdout[2]) > 6 + col
                 /\ \A i \in 1..(6 + col) : stdout[2][i] = " "
                 /\ stdout[2][6 + col + 1] \in {"-", "^"}
        ELSE stdout = << <<"U", "n", "e", "x", "p", "e", "c", "t", "e", "d", " ", "e", "n", "d", " ", "o", "f", " ", "b", "i", "b", "t", "e", "x", ".">> >>

(***************************************************************************)
(* Field lines outside an entry                                            *)
(***************************************************************************)

\* The place after the entry opened at the TY line t: the next TY or ER
\* line, or the end of the text.
EndOf(t) ==
    LET later == {i \in TyPlaces \cup ErPlaces : i > t}
    IN  IF later = {} THEN Len(src) + 1 ELSE CHOOSE i \in later : \A j \in later : i <= j

\* The field lines that belong to no entry: no TY line before them, or an ER
\* line and no TY line since.
StrayFieldLines == {i \in DOMAIN src : Line(i).kind = "field" /\ ~OpenBefore(i)}

\* C26: every record a successful parse_ris returns was opened by a TY line:
\* it has the type of a TY line of the text and the fields of the field lines
\* between that line and the next TY or ER line, so that a field line before
\* the first TY line, or between an ER line and the next TY line, is in no
\* record.
C26_RecordsOpenedByTy ==
    (pc = "returned" /\ result.ok) =>
        \A k \in DOMAIN result.entries :
            \E t \in TyPlaces :
                /\ result.entries[k].ty = Line(t).ty
                /\ result.entries[k].fields = FieldsAt((t + 1)..(EndOf(t) - 1))

\* The same for the texts without a field line outside an entry.
RecordsOpenedByTyWithoutStray ==
    (pc = "returned" /\ result.ok /\ StrayFieldLines = {}) =>
        \A k \in DOMAIN result.entries :
            \E t \in TyPlaces :
                /\ result.entries[k].ty = Line(t).ty
                /\ result.entries[k].fields = FieldsAt((t + 1)..(EndOf(t) - 1))

(***************************************************************************)
(* The title part of a file name and the stop-words                        *)
(***************************************************************************)

\* The most words of a title.
MaxWords == 3

\* The words titles are made of: stop-words as listed, stop-words written
\* with capitals, and other words.
TitleWords ==
    << <<"t", "h", "e">>, <<"T", "h", "e">>, <<"A">>, <<"O", "F">>, <<"s", "t", "u", "d", "y">>, <<"C", "a", "t", "s">> >>

\* The titles: up to MaxWords words, each given by its place in TitleWords.
Titles == UNION {[1..n -> DOMAIN TitleWords] : n \in 0..MaxWords}

\* The TI value of a title.
TitleText(s) == join([i \in DOMAIN s |-> TitleWords[s[i]]], <<" ">>)

\* add_entry called on a record with each of the titles; a title without
\* words is a record without TI.
InitTitle ==
    /\ src \in Titles
    /\ entry = NameRecord(<<>>, IF src = <<>> THEN <<>> ELSE <<TitleText(src)>>, <<>>)
    /\ content = <<>>
    /\ pc = "add_entry"
    /\ lines_iter = <<>>
    /\ line_number = 0
    /\ entries = ParserStart.entries
    /\ current_fields = ParserStart.current_fields
    /\ current_ty = ParserStart.current_ty
    /\ has_ty = ParserStart.has_ty
    /\ result = NoResult
    /\ TypesIdle
    /\ ImportIdle
    /\ ExportIdle
    /\ OthersIdle

NextTitle == AddEntryCreateDir \/ AddEntryExists

SpecTitle == InitTitle /\ [][NextTitle]_vars

\* C27: the title part of the file name add_entry forms is never a
\* stop-word, however the words of the title are written.
C27_TitleSlugNoStopword ==
    pc \in {"exists", "write"} => sanitized_title \notin academic_stopwords

\* The same for the titles whose stop-words are written in small letters.
TitleSlugNoStopwordLowerCase ==
    (/\ pc \in {"exists", "write"}
     /\ \A i \in DOMAIN src :
           to_lowercase(TitleWords[src[i]]) \in academic_stopwords =>
               TitleWords[src[i]] \in academic_stopwords) =>
        sanitized_title \notin academic_stopwords

(***************************************************************************)
(* The file name and the folder                                            *)
(***************************************************************************)

\* The longest value of AU, TI and PY tried.
MaxPathLen == 2

\* The values tried: a letter, the path separator and the dot.
PathTexts == UNION {[1..n -> {"a", "/", "."}] : n \in 0..MaxPathLen}

\* add_entry called on a record with each of the values as AU, TI and PY.
InitPath ==
    /\ src \in PathTexts \X PathTexts \X PathTexts
    /\ entry = NameRecord(<<src[1]>>, <<src[2]>>, <<src[3]>>)
    /\ content = <<>>
    /\ pc = "add_entry"
    /\ lines_iter = <<>>
    /\ line_number = 0
    /\ entries = ParserStart.entries
    /\ current_fields = ParserStart.current_fields
    /\ current_ty = ParserStart.current_ty
    /\ has_ty = ParserStart.has_ty
    /\ result = NoResult
    /\ TypesIdle
    /\ ImportIdle
    /\ ExportIdle
    /\ OthersIdle

NextPath == AddEntryCreateDir \/ AddEntryExists

SpecPath == InitPath /\ [][NextPath]_vars

\* The components of a path.
Components(path) == split(path, <<"/">>)

\* C28: the file name add_entry forms has no path separator and no ".."
\* component, whatever the values of AU, TI and PY, so that the file lies
\* directly in ris_files.
C28_FileNameInsideFolder ==
    pc \in {"exists", "write"} =>
        /\ ~HasChar(file_name, "/")
        /\ \A i \in DOMAIN Components(file_name) : Components(file_name)[i] # <<".", ".">>

\* The same for the records whose year has no path separator.
FileNameInsideFolderPlainYear ==
    (pc \in {"exists", "write"} /\ ~HasChar(src[3], "/")) =>
        /\ ~HasChar(file_name, "/")
        /\ \A i \in DOMAIN Components(file_name) : Components(file_name)[i] # <<".", ".">>

(***************************************************************************)
(* The commands: init, clone, workspace set, import                        *)
(***************************************************************************)

\* The most projects cloned, and the most files the folders hold when an
\* import starts.
MaxProjects == 2
MaxFiles == 0

\* The folders repositories are cloned into.
ProjectPaths == {"/a", "/b"}

\* AppState::default()
DefaultState == AppState(FALSE, <<>>, "")

\* The texts on the clipboard: the same record twice, and a text that is
\* neither BibTeX nor RIS.
ClipboardTexts ==
    { <<"T", "Y", " ", " ", "-", " ", "B", "O", "O", "K", "\n", "E", "R", " ", " ", "-", "\n",
        "T", "Y", " ", " ", "-", " ", "B", "O", "O", "K", "\n", "E", "R", " ", " ", "-">>,
      <<"B", "a", "d">> }

\* A git command run in a folder.
GitCommand(dir, cmd, arg) == [dir |-> dir, cmd |-> cmd, arg |-> arg]

\* The command is over and the prompt is back.
Done(value) ==
    /\ pc' = "shell"
    /\ outcome' = value

cliFrame ==
    <<src, content, parserVars, typeVars, bibliography, ris_ran, format,
      file_name, counter, nameVars, index, commits, failure,
      ris_folder, read_dir, bibtex_entries, stderr, output, calls, span, stdout>>

\* handle_init that leaves current_project as it is.
HandleInit_keeps_current_project(force) ==
    /\ pc = "shell"
    /\ IF state.initialized /\ ~force
       THEN Done(Ok(Unit)) /\ UNCHANGED state
       ELSE \E saved \in BOOLEAN :
               IF saved
               THEN /\ state' = AppState(TRUE, <<>>, state.current_project)
                    /\ Done(Ok(Unit))
               ELSE Done(Err("save_state")) /\ UNCHANGED state
    /\ git' = {}
    /\ writes' = <<>>
    /\ UNCHANGED <<entry, pending, files>>
    /\ UNCHANGED cliFrame

\* handle_init: nothing on an initialized state without force; otherwise the
\* state becomes the default one, initialized, and is saved.
HandleInit(force) ==
    /\ pc = "shell"
    /\ IF state.initialized /\ ~force
       THEN Done(Ok(Unit)) /\ UNCHANGED state
       ELSE \E saved \in BOOLEAN :
               IF saved
               THEN /\ state' = [DefaultState EXCEPT !.initialized = TRUE]
                    /\ Done(Ok(Unit))
               ELSE Done(Err("save_state")) /\ UNCHANGED state
    /\ git' = {}
    /\ writes' = <<>>
    /\ UNCHANGED <<entry, pending, files>>
    /\ UNCHANGED cliFrame

\* handle_clone: nothing on a state that is not initialized; otherwise git
\* clone, and when it succeeds the project is pushed and the state saved.
HandleClone(absolute_path) ==
    /\ pc = "shell"
    /\ Len(state.projects) < MaxProjects
    /\ IF ~state.initialized
       THEN Done(Ok(Unit)) /\ git' = {} /\ UNCHANGED state
       ELSE \E cloned \in BOOLEAN, saved \in BOOLEAN :
               /\ git' = {GitCommand("cwd", "clone", <<"url", absolute_path>>)}
               /\ IF ~cloned THEN Done(Err("git clone")) /\ UNCHANGED state
                  ELSE IF ~saved THEN Done(Err("save_state")) /\ UNCHANGED state
                  ELSE /\ state' = [state EXCEPT !.projects =
                                       Append(@, [absolute_path |-> absolute_path, url |-> "url"])]
                       /\ Done(Ok(Unit))
    /\ writes' = <<>>
    /\ UNCHANGED <<entry, pending, files>>
    /\ UNCHANGED cliFrame

\* handle_set: nothing without projects; otherwise the project selected
\* becomes the current one and the state is saved.
HandleSet ==
    /\ pc = "shell"
    /\ IF state.projects = <<>>
       THEN Done(Ok(Unit)) /\ UNCHANGED state
       ELSE \E selected_index \in DOMAIN state.projects, interacted \in BOOLEAN,
               saved \in BOOLEAN :
               IF ~interacted THEN Done(Err("interact")) /\ UNCHANGED state
               ELSE IF ~saved THEN Done(Err("save_state")) /\ UNCHANGED state
               ELSE /\ state' = [state EXCEPT !.current_project =
                                    state.projects[selected_index].absolute_path]
                    /\ Done(Ok(Unit))
    /\ git' = {}
    /\ writes' = <<>>
    /\ UNCHANGED <<entry, pending, files>>
    /\ UNCHANGED cliFrame

\* handle_import up to its loops: the two early returns, the clipboard, then
\* Bibliography::parse and, on an empty bibliography, parse_ris.
HandleImport(from_clipboard) ==
    /\ pc = "shell"
    /\ Cardinality(DOMAIN files) <= MaxFiles
    /\ IF ~state.initialized \/ state.projects = <<>> \/ ~from_clipboard
       THEN Done(Ok(Unit)) /\ UNCHANGED pending
       ELSE \E got \in BOOLEAN, text \in ClipboardTexts :
               \E parsed \in BibliographyParse(text) :
                  LET ris == parse_ris(text)
                  IN  IF ~got THEN Done(Err("clipboard")) /\ UNCHANGED pending
                      ELSE IF parsed.state = "Err" THEN Done(Ok(Unit)) /\ UNCHANGED pending
                      ELSE IF parsed.entries # <<>>
                      THEN /\ pending' = [i \in DOMAIN parsed.entries |->
                                             RisEntry_from(parsed.entries[i])]
                           /\ pc' = "handle_import"
                           /\ UNCHANGED outcome
                      ELSE IF ris.ok /\ ris.entries # <<>>
                      THEN /\ pending' = ris.entries
                           /\ pc' = "handle_import"
                           /\ UNCHANGED outcome
                      ELSE Done(Ok(Unit)) /\ UNCHANGED pending
    /\ git' = {}
    /\ writes' = <<>>
    /\ UNCHANGED <<state, entry, files>>
    /\ UNCHANGED cliFrame

\* The loop of add_entry: the first of the names that is not in the folder.
RECURSIVE free_file_name(_, _, _, _, _, _, _)
free_file_name(folder, project_path, name, author, title, date, n) ==
    IF <<project_path, name>> \in DOMAIN folder
    THEN free_file_name(folder, project_path, format_numbered(author, title, date, n),
                        author, title, date, n + 1)
    ELSE name

\* A git command of add_entry: in a folder without name it cannot be started.
GitRuns(project_path, ok) == project_path # "" /\ ok

\* One turn of the loops of handle_import: add_entry(state, entry)? on the
\* next record, in the folder of state.current_project; Ok(()) after the last.
HandleImportAddEntry ==
    /\ pc = "handle_import"
    /\ IF pending = <<>>
       THEN Done(Ok(Unit)) /\ UNCHANGED <<pending, files, writes, git>>
       ELSE \E dir_ok \in BOOLEAN, write_ok \in BOOLEAN, add_ok \in BOOLEAN,
               commit_ok \in BOOLEAN, order \in Orders(DOMAIN Head(pending).fields) :
               LET project_path == state.current_project
                   author == sanitize(author_of(Head(pending)))
                   title == sanitize(title_of(Head(pending)))
                   date == year_of(Head(pending))
                   name == free_file_name(files, project_path,
                                          format_file_name(author, title, date),
                                          author, title, date, 1)
                   text == to_string(Head(pending), order)
                   added == GitCommand(project_path, "add", <<"--all">>)
                   committed == GitCommand(project_path, "commit",
                                           <<"A", "d", "d", "e", "d", " ">> \o name)
               IN  /\ pending' = Tail(pending)
                   /\ IF ~dir_ok
                      THEN /\ pc' = "handle_import"
                           /\ UNCHANGED <<outcome, files, writes, git>>
                      ELSE /\ IF write_ok
                              THEN /\ files' = written(files, <<project_path, name>>, text)
                                   /\ writes' = Append(writes,
                                         [name |-> name, text |-> text, entry |-> Head(pending),
                                          before |-> files, dir |-> project_path])
                              ELSE UNCHANGED <<files, writes>>
                           /\ IF ~GitRuns(project_path, TRUE)
                              THEN Done(Err("git add --all")) /\ UNCHANGED git
                              ELSE IF ~add_ok
                              THEN Done(Err("git add --all")) /\ git' = git \cup {added}
                              ELSE IF ~commit_ok
                              THEN Done(Err("git commit")) /\ git' = git \cup {added, committed}
                              ELSE /\ git' = git \cup {added, committed}
                                   /\ pc' = "handle_import"
                                   /\ UNCHANGED outcome
    /\ UNCHANGED <<state, entry>>
    /\ UNCHANGED cliFrame

\* The commands run one after the other, from a state that is not initialized.
InitCli ==
    /\ src = <<>>
    /\ content = <<>>
    /\ entry = NoEntry
    /\ pc = "shell"
    /\ lines_iter = <<>>
    /\ line_number = 0
    /\ entries = ParserStart.entries
    /\ current_fields = ParserStart.current_fields
    /\ current_ty = ParserStart.current_ty
    /\ has_ty = ParserStart.has_ty
    /\ result = NoResult
    /\ TypesIdle
    /\ ImportIdle
    /\ state = DefaultState
    /\ ris_folder = TRUE
    /\ read_dir = {}
    /\ bibtex_entries = <<>>
    /\ stderr = <<>>
    /\ output = NoOutput
    /\ OthersIdle

NextCli ==
    \/ \E force \in BOOLEAN : HandleInit(force)
    \/ \E absolute_path \in ProjectPaths : HandleClone(absolute_path)
    \/ HandleSet
    \/ \E from_clipboard \in BOOLEAN : HandleImport(from_clipboard)
    \/ HandleImportAddEntry

SpecCli == InitCli /\ [][NextCli]_vars

\* C29: after any sequence of init, clone and workspace set, handle_import
\* called while state.current_project is empty writes no file and runs no git
\* command: no file has been written and no git command run in a folder
\* without name.
C29_NoStorageWithoutProject ==
    /\ \A i \in DOMAIN writes : writes[i].dir # ""
    /\ \A c \in git : c.dir # ""

\* C30: after any sequence of init, clone, workspace set and import,
\* state.current_project is empty or the absolute_path of a project of
\* state.projects; handle_init without force on an initialized state, and
\* handle_clone on a state that is not initialized or with a git clone that
\* fails, leave the state as it was.
C30_CurrentProjectIsAProject ==
    /\ [](\/ state.current_project = ""
          \/ \E i \in DOMAIN state.projects :
                state.projects[i].absolute_path = state.current_project)
    /\ [][(HandleInit(FALSE) /\ state.initialized) => state' = state]_vars
    /\ [][\A p \in ProjectPaths :
             (HandleClone(p) /\ (~state.initialized \/ outcome' = Err("git clone")))
                 => state' = state]_vars

\* C30: the second of two projects has been made the current one, and a
\* further clone has failed.
C30_Witness ==
    /\ pc = "shell"
    /\ Len(state.projects) = 2
    /\ state.current_project = state.projects[2].absolute_path
    /\ state.projects[1].absolute_path # state.projects[2].absolute_path
    /\ outcome = Err("save_state")

====
